---- MODULE Spec2Model ----
(***************************************************************************)
(* A model of the wasmparser Validator (crates/wasmparser/src/validator.rs) *)
(* and of DataSectionReader::read (readers/core/data.rs).                   *)
(*                                                                         *)
(* Spec        every sequence of calls of the Validator's payload methods   *)
(* SpecModule  a caller that stops at the first error, with counts at the   *)
(*             limits                                                       *)
(* SpecData    DataSectionReader::read on every short section buffer        *)
(* SpecAll     Validator::validate_all driving the parser and the Validator *)
(* SpecMax     check_max on every triple of small arguments                 *)
(* SpecStart   the start function of a module over every function type      *)
(* SpecPar     function bodies validated by workers in any order            *)
(* SpecNest    a component holding nested modules up to the caps, fed with  *)
(*             payloads of every kind                                       *)
(* SpecValueType  check_value_type on every value type and flag setting     *)
(* SpecElements  segments added to an ElementSection of the encoder         *)
(* SpecMutate  AddTypeMutator on small modules                              *)
(* SpecTypes   the Types a validated module ends with                       *)
(* SpecDataLen the end of DataSectionReader::read with integers at their     *)
(*             width                                                        *)
(* SpecSkip    InitTranslator::should_process called again and again        *)
(* SpecInitExpr  InitTranslator::translate_init_expr on every small         *)
(*             initializer                                                  *)
(* SpecInitMutate  InitExpressionMutator on small global and element        *)
(*             sections                                                     *)
(* SpecHeader  validate_all, twice, on every 8-byte input of a small        *)
(*             alphabet                                                     *)
(***************************************************************************)
EXTENDS Integers, Sequences, FiniteSets, TLC

\* ------------------------------------------------------------------ bounds
\* Most globals and most element segments of a module given to
\* InitExpressionMutator.
MaxInits == 2
\* Largest constant of an initializer, in absolute value.
MaxConst == 3
\* Most entries of a section of a module whose Types are asked.
MaxEntries == 2
\* Most raw sections of a module handed to a mutator.
MaxRaw == 3
\* Largest max_params and max_results of an AddTypeMutator.
MaxParams == 1
\* Most segments added to one element section.
MaxSegments == 2
\* Largest "ordinary" item count a section payload declares.
MaxCount == 1
\* Largest depth of the component stack that is explored.
MaxDepth == 3
\* Largest number of finished children recorded in one component scope.
MaxChildren == 1
\* Longest data section payload, in bytes.
MaxLen == 5
\* Longest input of validate_all, in units.
MaxInput == 6
\* Width in bits of the usize and u32 arguments check_max is tried on.
UsizeBits == 4
\* Most function bodies handed out to workers, and most nested modules.
MaxBodies == 2

\* --------------------------------------------------------------- constants
WASM_MODULE_VERSION == 1
WASM_COMPONENT_VERSION == 65546
MAX_WASM_TYPES == 1000000
MAX_WASM_FUNCTIONS == 1000000
MAX_WASM_DATA_SEGMENTS == 100000
MAX_WASM_MEMORIES == 100
MAX_WASM_TABLES == 100
MAX_WASM_TAGS == 1000000
MAX_WASM_GLOBALS == 1000000
MAX_WASM_EXPORTS == 100000
MAX_WASM_ELEMENT_SEGMENTS == 100000
MAX_WASM_MODULES == 1000
MAX_WASM_COMPONENTS == 1000
MAX_WASM_INSTANCES == 1000

\* Option<T>
None == [some |-> FALSE]
Some(v) == [some |-> TRUE, val |-> v]

OK == "ok"

\* ------------------------------------------------------------------- state
VARIABLES
  state,       \* Validator.state: "Unparsed" | "Module" | "Component" | "End"
  expected,    \* the Option<Encoding> carried by State::Unparsed
  module,      \* Validator.module: Option<ModuleState>
  components,  \* Validator.components: the stack of ComponentState
  features,    \* Validator.features
  result,      \* what the last call returned
  panicked,    \* TRUE once a call hit an unwrap/assert/unreachable that fires
  types,       \* Validator.types: the length of the TypeList
  data_reader,      \* a DataSectionReader (SpecData)
  item,        \* what the last DataSectionReader::read returned (SpecData)
  driver       \* the locals of a running Validator::validate_all (SpecAll)


\* What a step of the validator alone leaves as it is.
Idle == UNCHANGED <<data_reader, item, driver>>

Encodings == {"Module", "Component"}

\* State::default
StateDefault == [state |-> "Unparsed", expected |-> None]

\* WasmFeatures::default; only the flags the modelled code reads
WasmFeaturesDefault ==
  [component_model |-> FALSE, bulk_memory |-> TRUE, reference_types |-> TRUE,
   exceptions |-> FALSE, multi_memory |-> FALSE]

\* The feature sets a validator is created with: the default, the default
\* with exceptions and multi-memory on and reference types off, and every
\* flag on.
FeatureSets ==
  {WasmFeaturesDefault,
   [WasmFeaturesDefault EXCEPT !.exceptions = TRUE, !.multi_memory = TRUE,
                               !.reference_types = FALSE],
   [component_model |-> TRUE, bulk_memory |-> TRUE, reference_types |-> TRUE,
    exceptions |-> TRUE, multi_memory |-> TRUE]}

\* ModuleState::default. types and functions hold the function type of each
\* entry (the TypeList is append-only, so an id resolves to the same
\* definition whenever it is looked up); snapshot is the committed TypeList.
ModuleStateDefault ==
  [order |-> 0, expected_code_bodies |-> None, data_segment_count |-> 0,
   data_count |-> None, types |-> <<>>, functions |-> <<>>, memories |-> 0,
   tables |-> <<>>, globals |-> 0, tags |-> <<>>, element_types |-> <<>>,
   snapshot |-> None, code_entries |-> 0]

\* FuncType: the parameters and the results of a function
FuncType(params, returns) == [params |-> params, returns |-> returns]
FuncTypes ==
  {FuncType(<<>>, <<>>), FuncType(<<"I32">>, <<>>), FuncType(<<>>, <<"I32">>)}

\* ComponentState::default
ComponentStateDefault == [modules |-> 0, components |-> 0]

\* Order, the rank of a section in a module
Order ==
  [Initial |-> 0, Type |-> 1, Import |-> 2, Function |-> 3, Table |-> 4,
   Memory |-> 5, Tag |-> 6, Global |-> 7, Export |-> 8, Start |-> 9,
   Element |-> 10, DataCount |-> 11, Code |-> 12, Data |-> 13]

\* --------------------------------------------------------------- results
\* What a call returned: Ok(()) and Err(e) carry no value, `val` is the
\* FuncValidator or the Types of a ValidPayload::Func or ValidPayload::End.
NoResult == [call |-> "new", ok |-> TRUE, msg |-> OK, offset |-> 0, ret |-> "Ok",
             val |-> [kind |-> "none"]]
RetVal(call, ret, val) ==
  [call |-> call, ok |-> TRUE, msg |-> OK, offset |-> 0, ret |-> ret, val |-> val]
Ret(call, ret) == RetVal(call, ret, [kind |-> "none"])
Err(call, msg, off) ==
  [call |-> call, ok |-> FALSE, msg |-> msg, offset |-> off, ret |-> "Err",
   val |-> [kind |-> "none"]]
Panicked(call) ==
  [call |-> call, ok |-> FALSE, msg |-> "panic", offset |-> 0, ret |-> "Panic",
   val |-> [kind |-> "none"]]

\* The call returns Err(msg) and has changed nothing.
Reject(call, msg, off) ==
  /\ result' = Err(call, msg, off)
  /\ UNCHANGED <<state, expected, module, components, features, types, panicked>>

\* The call panics: the thread unwinds, nothing is returned.
Panic(call) ==
  /\ panicked' = TRUE
  /\ result' = Panicked(call)
  /\ UNCHANGED <<state, expected, module, components, features, types>>

\* ----------------------------------------------------------------- Init
\* Validator::new / Validator::new_with_features
NoReader == [reader |-> [buffer |-> <<>>, position |-> 0, original_offset |-> 0],
             count |-> 0, forbid_bulk_memory |-> FALSE]
NoItem == [call |-> "none"]
NoDriver == [pc |-> "none"]

Init ==
  /\ data_reader = NoReader
  /\ item = NoItem
  /\ driver = NoDriver
  /\ state = StateDefault.state
  /\ expected = StateDefault.expected
  /\ module = None
  /\ components = <<>>
  /\ features \in FeatureSets
  /\ result = NoResult
  /\ panicked = FALSE
  /\ types = 0

\* ------------------------------------------------------- Validator::version
\* version without the test of the state
version_any_state(num, encoding, off) ==
  IF expected.some /\ expected.val # encoding
  THEN Reject("version",
              "expected a version header for a " \o
                 (IF expected.val = "Module" THEN "module" ELSE "component"),
              off)
  ELSE IF encoding = "Module" /\ num = WASM_MODULE_VERSION
  THEN IF module.some
       THEN Panic("version")
       ELSE /\ module' = Some(ModuleStateDefault)
            /\ state' = "Module"
            /\ expected' = None
            /\ result' = Ret("version", "Ok")
            /\ UNCHANGED <<components, features, types, panicked>>
  ELSE IF encoding = "Component" /\ num = WASM_COMPONENT_VERSION
  THEN IF ~features.component_model
       THEN Reject("version", "WebAssembly component model feature not enabled", off)
       ELSE /\ components' = Append(components, ComponentStateDefault)
            /\ state' = "Component"
            /\ expected' = None
            /\ result' = Ret("version", "Ok")
            /\ UNCHANGED <<module, features, types, panicked>>
  ELSE Reject("version", "unknown binary version", off)

\* version without `self.module = Some(ModuleState::default())`
version_no_module(num, encoding, off) ==
  IF state # "Unparsed"
  THEN Reject("version", "wasm version header out of order", off)
  ELSE IF expected.some /\ expected.val # encoding
  THEN Reject("version",
              "expected a version header for a " \o
                 (IF expected.val = "Module" THEN "module" ELSE "component"),
              off)
  ELSE IF encoding = "Module" /\ num = WASM_MODULE_VERSION
  THEN IF module.some
       THEN Panic("version")
       ELSE /\ state' = "Module"
            /\ expected' = None
            /\ result' = Ret("version", "Ok")
            /\ UNCHANGED <<module, components, features, types, panicked>>
  ELSE IF encoding = "Component" /\ num = WASM_COMPONENT_VERSION
  THEN IF ~features.component_model
       THEN Reject("version", "WebAssembly component model feature not enabled", off)
       ELSE /\ components' = Append(components, ComponentStateDefault)
            /\ state' = "Component"
            /\ expected' = None
            /\ result' = Ret("version", "Ok")
            /\ UNCHANGED <<module, features, types, panicked>>
  ELSE Reject("version", "unknown binary version", off)

\* version with the ComponentState pushed before the feature is tested
version_push_first(num, encoding, off) ==
  IF state # "Unparsed"
  THEN Reject("version", "wasm version header out of order", off)
  ELSE IF expected.some /\ expected.val # encoding
  THEN Reject("version",
              "expected a version header for a " \o
                 (IF expected.val = "Module" THEN "module" ELSE "component"),
              off)
  ELSE IF encoding = "Module" /\ num = WASM_MODULE_VERSION
  THEN IF module.some
       THEN Panic("version")
       ELSE /\ module' = Some(ModuleStateDefault)
            /\ state' = "Module"
            /\ expected' = None
            /\ result' = Ret("version", "Ok")
            /\ UNCHANGED <<components, features, types, panicked>>
  ELSE IF encoding = "Component" /\ num = WASM_COMPONENT_VERSION
  THEN /\ components' = Append(components, ComponentStateDefault)
       /\ IF ~features.component_model
          THEN /\ result' = Err("version", "WebAssembly component model feature not enabled", off)
               /\ UNCHANGED <<state, expected>>
          ELSE /\ state' = "Component"
               /\ expected' = None
               /\ result' = Ret("version", "Ok")
       /\ UNCHANGED <<module, features, types, panicked>>
  ELSE Reject("version", "unknown binary version", off)

\* version without the test of the component_model feature
version_no_feature(num, encoding, off) ==
  IF state # "Unparsed"
  THEN Reject("version", "wasm version header out of order", off)
  ELSE IF expected.some /\ expected.val # encoding
  THEN Reject("version",
              "expected a version header for a " \o
                 (IF expected.val = "Module" THEN "module" ELSE "component"),
              off)
  ELSE IF encoding = "Module" /\ num = WASM_MODULE_VERSION
  THEN IF module.some
       THEN Panic("version")
       ELSE /\ module' = Some(ModuleStateDefault)
            /\ state' = "Module"
            /\ expected' = None
            /\ result' = Ret("version", "Ok")
            /\ UNCHANGED <<components, features, types, panicked>>
  ELSE IF encoding = "Component" /\ num = WASM_COMPONENT_VERSION
  THEN /\ components' = Append(components, ComponentStateDefault)
       /\ state' = "Component"
       /\ expected' = None
       /\ result' = Ret("version", "Ok")
       /\ UNCHANGED <<module, features, types, panicked>>
  ELSE Reject("version", "unknown binary version", off)

\* Validator::version: the header must come first, in the encoding expected
version(num, encoding, off) ==
  IF state # "Unparsed"
  THEN Reject("version", "wasm version header out of order", off)
  ELSE IF expected.some /\ expected.val # encoding
  THEN Reject("version",
              "expected a version header for a " \o
                 (IF expected.val = "Module" THEN "module" ELSE "component"),
              off)
  ELSE IF encoding = "Module" /\ num = WASM_MODULE_VERSION
  THEN IF module.some
       THEN Panic("version")
       ELSE /\ module' = Some(ModuleStateDefault)
            /\ state' = "Module"
            /\ expected' = None
            /\ result' = Ret("version", "Ok")
            /\ UNCHANGED <<components, features, types, panicked>>
  ELSE IF encoding = "Component" /\ num = WASM_COMPONENT_VERSION
  THEN IF ~features.component_model
       THEN Reject("version", "WebAssembly component model feature not enabled", off)
       ELSE /\ components' = Append(components, ComponentStateDefault)
            /\ state' = "Component"
            /\ expected' = None
            /\ result' = Ret("version", "Ok")
            /\ UNCHANGED <<module, features, types, panicked>>
  ELSE Reject("version", "unknown binary version", off)

\* ------------------------------------------------------------- check_max
\* the test written as a sum in usize, which wraps
check_max_wrapping(cur_len, amt_added, max, desc) ==
  IF (cur_len + amt_added) % (2 ^ UsizeBits) > max
  THEN IF max = 1
       THEN "multiple " \o desc
       ELSE desc \o " count exceeds limit of " \o ToString(max)
  ELSE OK

\* `max.checked_sub(cur_len).and_then(|amt| amt.checked_sub(amt_added))` is
\* None when max < cur_len or when what is left is less than amt_added.
check_max(cur_len, amt_added, max, desc) ==
  IF max < cur_len \/ max - cur_len < amt_added
  THEN IF max = 1
       THEN "multiple " \o desc
       ELSE desc \o " count exceeds limit of " \o ToString(max)
  ELSE OK

\* ------------------------------- State::ensure_module_state / component
StateWhen(s) ==
  CASE s = "Unparsed" -> " section before header was parsed"
    [] s = "Module" -> " section while parsing a module"
    [] s = "Component" -> " section while parsing a component"
    [] s = "End" -> " section after parsing has completed"

ensure_module_state(s, section) ==
  IF s = "Module" THEN OK
  ELSE "unexpected module " \o section \o StateWhen(s)

\* the check with the Unparsed arm taken for Component
ensure_component_state_unparsed(s, section) ==
  IF s \in {"Component", "Unparsed"} THEN OK
  ELSE "unexpected component " \o section \o StateWhen(s)

ensure_component_state(s, section) ==
  IF s = "Component" THEN OK
  ELSE "unexpected component " \o section \o StateWhen(s)

\* --------------------------------------- ModuleState (validator/core.rs)
\* update_order: the rank must be strictly greater than the last one.
update_order(m, order) ==
  IF m.order >= order
  THEN [err |-> "section out of order", m |-> m]
  ELSE [err |-> OK, m |-> [m EXCEPT !.order = order]]

\* validate_end: DataCount against Data, Function against Code.
validate_end(m) ==
  IF m.data_count.some /\ m.data_count.val # m.data_segment_count
  THEN "data count and data section have inconsistent lengths"
  ELSE IF m.expected_code_bodies.some /\ m.expected_code_bodies.val > 0
  THEN "function and code sections have inconsistent lengths"
  ELSE OK

\* max_memories: 1 unless multi-memory is enabled.
max_memories(f) == IF f.multi_memory THEN MAX_WASM_MEMORIES ELSE 1

\* max_tables: 1 unless reference types are enabled.
max_tables(f) == IF f.reference_types THEN MAX_WASM_TABLES ELSE 1

\* next_code_entry_type: one code entry per locally defined function, with
\* the type of that function.
next_code_entry_type(m) ==
  IF m.code_entries < Len(m.functions)
  THEN [err |-> OK, m |-> [m EXCEPT !.code_entries = @ + 1],
        ty |-> m.functions[m.code_entries + 1]]
  ELSE [err |-> "code section entry exceeds number of functions", m |-> m]

\* get_func_type: the type of function `func`
get_func_type(m, func) ==
  IF func < Len(m.functions)
  THEN [err |-> OK, ty |-> m.functions[func + 1]]
  ELSE [err |-> "unknown function " \o ToString(func) \o ": func index out of bounds"]

\* TypeList::commit: the snapshot holds the definitions pushed so far
commit(list) == [len |-> list]

\* What the item validators of a section do with its first s.good items: the
\* module state and the TypeList after them, and the validator's own error if
\* one of them is refused (decode errors and the checks that are not modelled
\* are the section's `good`). The items of a section all carry s.item.
NoItems(m, s) == [err |-> OK, m |-> m, types |-> types]

\* add_type: the definition is pushed on the TypeList, its id on the module
add_type(m, s) ==
  [err |-> OK, m |-> [m EXCEPT !.types = @ \o [i \in 1..s.good |-> s.item]],
   types |-> types + s.good]

\* add_function: the item is the index of a type of the module
add_function(m, s) ==
  IF s.good = 0 THEN [err |-> OK, m |-> m, types |-> types]
  ELSE IF s.item >= Len(m.types)
  THEN [err |-> "unknown type " \o ToString(s.item) \o ": type index out of bounds",
        m |-> m, types |-> types]
  ELSE [err |-> OK,
        m |-> [m EXCEPT !.functions = @ \o [i \in 1..s.good |-> m.types[s.item + 1]]],
        types |-> types]

add_memory(m, s) ==
  [err |-> OK, m |-> [m EXCEPT !.memories = @ + s.good], types |-> types]

\* add_import, for memory imports: push the memory, then check the list
\* against max_memories.
add_import(m, s) ==
  LET max == max_memories(features)
      room == IF max < m.memories THEN 0 ELSE max - m.memories
  IN IF s.good <= room
     THEN [err |-> OK, m |-> [m EXCEPT !.memories = @ + s.good], types |-> types]
     ELSE [err |-> check_max(m.memories + room + 1, 0, max, "memories"),
           m |-> [m EXCEPT !.memories = @ + room + 1], types |-> types]

\* ----------------------------------------------------- section payloads
\* A section reader: the declared count, how many leading items decode and
\* validate (good = count: all of them), whether bytes are left over after
\* them, where the section starts, and where the reader stands when an item
\* or the end of the section is found wrong.
ItemError == "invalid section item"
EndError == "unexpected content in the section after the last entry"

Sections(counts, offsets) ==
  { s \in [count : counts, good : (0..MaxCount) \cup counts,
           trailing : BOOLEAN, start : offsets, at : offsets] :
      /\ s.at = s.start
      /\ s.good <= s.count
      /\ (s.good > MaxCount => s.good = s.count)
      /\ (s.trailing => s.good = s.count) }

SmallCounts == 0..MaxCount

\* The sections of S as a payload of kind `tag` carries them: the items of a
\* Type section are function types, those of a Function section type indices.
Items(tag, S) ==
  CASE tag = "TypeSection" ->
         {[count |-> s.count, good |-> s.good, trailing |-> s.trailing,
           start |-> s.start, at |-> s.at, item |-> i] : s \in S, i \in FuncTypes}
    [] tag = "FunctionSection" ->
         {[count |-> s.count, good |-> s.good, trailing |-> s.trailing,
           start |-> s.start, at |-> s.at, item |-> i] : s \in S, i \in SmallCounts}
    [] OTHER -> S

\* ------------------------------------------ Validator::ensure_module_section
ensure_module_section(call, order, section, name, validate_section(_, _), validate_item(_, _)) ==
  LET offset == section.start
      st == ensure_module_state(state, name)
  IN
  IF st # OK THEN Reject(call, st, offset)
  ELSE IF ~module.some THEN Panic(call)
  ELSE
    LET uo == update_order(module.val, order) IN
    IF uo.err # OK THEN Reject(call, uo.err, offset)
    ELSE
      LET vs == validate_section(uo.m, section.count) IN
      IF vs.err # OK
      THEN /\ module' = Some(vs.m)
           /\ result' = Err(call, vs.err, offset)
           /\ UNCHANGED <<state, expected, components, features, types, panicked>>
      ELSE
        LET vi == validate_item(vs.m, section) IN
        /\ module' = Some(vi.m)
        /\ types' = vi.types
        /\ result' = IF vi.err # OK THEN Err(call, vi.err, section.at)
                     ELSE IF section.good < section.count THEN Err(call, ItemError, section.at)
                     ELSE IF section.trailing THEN Err(call, EndError, section.at)
                     ELSE Ret(call, "Ok")
        /\ UNCHANGED <<state, expected, components, features, panicked>>

\* The validate_section closures handed to ensure_module_section. The lists
\* the model does not keep (types, tables, tags, globals, exports, element
\* segments) are empty when their section arrives: a section does not repeat
\* and the modelled imports are memories.
no_validate_section(m, count) == [err |-> OK, m |-> m]
type_validate_section(m, count) ==
  [err |-> check_max(Len(m.types), count, MAX_WASM_TYPES, "types"), m |-> m]
\* the closure without its check_max
function_validate_section_no_cap(m, count) ==
  [err |-> OK, m |-> [m EXCEPT !.expected_code_bodies = Some(count)]]
function_validate_section(m, count) ==
  LET e == check_max(Len(m.functions), count, MAX_WASM_FUNCTIONS, "functions") IN
  IF e # OK THEN [err |-> e, m |-> m]
  ELSE [err |-> OK, m |-> [m EXCEPT !.expected_code_bodies = Some(count)]]
table_validate_section(m, count) ==
  [err |-> check_max(0, count, max_tables(features), "tables"), m |-> m]
\* the cap tested on the declared count alone
memory_validate_section_count_only(m, count) ==
  [err |-> check_max(0, count, max_memories(features), "memories"), m |-> m]
memory_validate_section(m, count) ==
  [err |-> check_max(m.memories, count, max_memories(features), "memories"), m |-> m]
tag_validate_section(m, count) ==
  [err |-> check_max(0, count, MAX_WASM_TAGS, "tags"), m |-> m]
global_validate_section(m, count) ==
  [err |-> check_max(0, count, MAX_WASM_GLOBALS, "globals"), m |-> m]
export_validate_section(m, count) ==
  [err |-> check_max(0, count, MAX_WASM_EXPORTS, "exports"), m |-> m]
element_validate_section(m, count) ==
  [err |-> check_max(0, count, MAX_WASM_ELEMENT_SEGMENTS, "element segments"), m |-> m]
\* the closure without `state.data_segment_count = count`
data_validate_section_no_record(m, count) ==
  [err |-> check_max(IF m.data_count.some THEN m.data_count.val ELSE 0, count,
                     MAX_WASM_DATA_SEGMENTS, "data segments"),
   m |-> m]
data_validate_section(m, count) ==
  [err |-> check_max(IF m.data_count.some THEN m.data_count.val ELSE 0, count,
                     MAX_WASM_DATA_SEGMENTS, "data segments"),
   m |-> [m EXCEPT !.data_segment_count = count]]

\* --------------------------------------------------- the module sections
type_section(section) ==
  ensure_module_section("type_section", Order.Type, section, "type",
                        type_validate_section, add_type)

import_section(section) ==
  ensure_module_section("import_section", Order.Import, section, "import",
                        no_validate_section, add_import)

function_section(section) ==
  ensure_module_section("function_section", Order.Function, section, "function",
                        function_validate_section, add_function)

table_section(section) ==
  ensure_module_section("table_section", Order.Table, section, "table",
                        table_validate_section, NoItems)

memory_section(section) ==
  ensure_module_section("memory_section", Order.Memory, section, "memory",
                        memory_validate_section, add_memory)

tag_section(section) ==
  IF ~features.exceptions
  THEN Reject("tag_section", "exceptions proposal not enabled", section.start)
  ELSE ensure_module_section("tag_section", Order.Tag, section, "tag",
                             tag_validate_section, NoItems)

global_section(section) ==
  ensure_module_section("global_section", Order.Global, section, "global",
                        global_validate_section, NoItems)

export_section(section) ==
  ensure_module_section("export_section", Order.Export, section, "export",
                        export_validate_section, NoItems)

element_section(section) ==
  ensure_module_section("element_section", Order.Element, section, "element",
                        element_validate_section, NoItems)

data_section(section) ==
  ensure_module_section("data_section", Order.Data, section, "data",
                        data_validate_section, NoItems)

\* start_section without the order check
\* `!ty.params.is_empty() || !ty.returns.is_empty()` with the test on the
\* results left out
start_type_params_only(ty) ==
  IF ty.params # <<>> THEN "invalid start function type" ELSE OK

\* `if !ty.params.is_empty() || !ty.returns.is_empty() { return Err(..) }`
start_type(ty) ==
  IF ty.params # <<>> \/ ty.returns # <<>> THEN "invalid start function type" ELSE OK

start_section_no_order(func, off) ==
  LET st == ensure_module_state(state, "start") IN
  IF st # OK THEN Reject("start_section", st, off)
  ELSE IF ~module.some THEN Panic("start_section")
  ELSE
    LET ft == get_func_type(module.val, func) IN
    /\ module' = Some([module.val EXCEPT !.order = Order.Start])
    /\ result' = IF ft.err # OK THEN Err("start_section", ft.err, off)
                 ELSE IF start_type(ft.ty) # OK
                 THEN Err("start_section", start_type(ft.ty), off)
                 ELSE Ret("start_section", "Ok")
    /\ UNCHANGED <<state, expected, components, features, types, panicked>>

\* start_section: `func` must be a function of type () -> ().
start_section(func, off) ==
  LET st == ensure_module_state(state, "start") IN
  IF st # OK THEN Reject("start_section", st, off)
  ELSE IF ~module.some THEN Panic("start_section")
  ELSE
    LET uo == update_order(module.val, Order.Start) IN
    IF uo.err # OK THEN Reject("start_section", uo.err, off)
    ELSE
      LET ft == get_func_type(uo.m, func) IN
      /\ module' = Some(uo.m)
      /\ result' = IF ft.err # OK THEN Err("start_section", ft.err, off)
                   ELSE IF start_type(ft.ty) # OK
                   THEN Err("start_section", start_type(ft.ty), off)
                   ELSE Ret("start_section", "Ok")
      /\ UNCHANGED <<state, expected, components, features, types, panicked>>

data_count_section(count, off) ==
  LET st == ensure_module_state(state, "data count") IN
  IF st # OK THEN Reject("data_count_section", st, off)
  ELSE IF ~module.some THEN Panic("data_count_section")
  ELSE
    LET uo == update_order(module.val, Order.DataCount) IN
    IF uo.err # OK THEN Reject("data_count_section", uo.err, off)
    ELSE IF count > MAX_WASM_DATA_SEGMENTS
    THEN /\ module' = Some(uo.m)
         /\ result' = Err("data_count_section",
                          "data count section specifies too many data segments", off)
         /\ UNCHANGED <<state, expected, components, features, types, panicked>>
    ELSE /\ module' = Some([uo.m EXCEPT !.data_count = Some(count)])
         /\ result' = Ret("data_count_section", "Ok")
         /\ UNCHANGED <<state, expected, components, features, types, panicked>>

\* the match without the arm for a missing function section
code_bodies_match_no_none(expected_code_bodies, count) ==
  IF expected_code_bodies.some /\ expected_code_bodies.val # count
  THEN "function and code section have inconsistent lengths"
  ELSE OK

\* The match on expected_code_bodies.take() in code_section_start.
code_bodies_match(expected_code_bodies, count) ==
  IF expected_code_bodies.some
  THEN IF expected_code_bodies.val = count THEN OK
       ELSE "function and code section have inconsistent lengths"
  ELSE IF count = 0 THEN OK
       ELSE "code section without function section"

\* the code section started without a snapshot of the types
take_snapshot_none(m) == m

\* `state.module.assert_mut().snapshot = Some(Arc::new(self.types.commit()))`
take_snapshot(m) == [m EXCEPT !.snapshot = Some(commit(types))]

\* What the Arc<Module> of a module holds: the part of the module state that
\* ValidatorResources and Types share with the validator.
Resources(m) ==
  [types |-> m.types, functions |-> m.functions, memories |-> m.memories,
   tables |-> m.tables, globals |-> m.globals, tags |-> m.tags,
   element_types |-> m.element_types,
   data_count |-> m.data_count, snapshot |-> m.snapshot]

\* FuncValidator::new(ty, 0, ValidatorResources(module.arc().clone()), &features)
FuncValidator(ty, resources, f) ==
  [kind |-> "FuncValidator", ty |-> ty, resources |-> resources, features |-> f]

\* code_section_start without `state.update_order(Order::Code, offset)?`
code_section_start_no_order(count, off) ==
  LET st == ensure_module_state(state, "code") IN
  IF st # OK THEN Reject("code_section_start", st, off)
  ELSE IF ~module.some THEN Panic("code_section_start")
  ELSE
    LET e == code_bodies_match(module.val.expected_code_bodies, count)
        taken == [module.val EXCEPT !.expected_code_bodies = None]
    IN /\ module' = IF e # OK THEN Some(taken) ELSE Some(take_snapshot(taken))
       /\ result' = IF e # OK THEN Err("code_section_start", e, off)
                    ELSE Ret("code_section_start", "Ok")
       /\ UNCHANGED <<state, expected, components, features, types, panicked>>

code_section_start(count, off) ==
  LET st == ensure_module_state(state, "code") IN
  IF st # OK THEN Reject("code_section_start", st, off)
  ELSE IF ~module.some THEN Panic("code_section_start")
  ELSE
    LET uo == update_order(module.val, Order.Code) IN
    IF uo.err # OK THEN Reject("code_section_start", uo.err, off)
    ELSE
      LET e == code_bodies_match(uo.m.expected_code_bodies, count)
          taken == [uo.m EXCEPT !.expected_code_bodies = None]
      IN /\ module' = IF e # OK THEN Some(taken) ELSE Some(take_snapshot(taken))
         /\ result' = IF e # OK THEN Err("code_section_start", e, off)
                      ELSE Ret("code_section_start", "Ok")
         /\ UNCHANGED <<state, expected, components, features, types, panicked>>

code_section_entry(off) ==
  LET st == ensure_module_state(state, "code") IN
  IF st # OK THEN Reject("code_section_entry", st, off)
  ELSE IF ~module.some THEN Panic("code_section_entry")
  ELSE
    LET ty == next_code_entry_type(module.val) IN
    IF ty.err # OK THEN Reject("code_section_entry", ty.err, off)
    ELSE /\ module' = Some(ty.m)
         /\ result' = RetVal("code_section_entry", "Func",
                             FuncValidator(ty.ty, Resources(ty.m), features))
         /\ UNCHANGED <<state, expected, components, features, types, panicked>>

\* ------------------------------------- Validator::ensure_component_section
\* The lists of a component scope that the model does not keep (types,
\* functions, instances, exports) are taken at their length `len`.
\* the helper without `section.ensure_end()?`
ensure_component_section_no_end(call, section, name, len, max, desc) ==
  LET offset == section.start IN
  IF ~features.component_model
  THEN Reject(call, "component model feature is not enabled", offset)
  ELSE
    LET st == ensure_component_state(state, name) IN
    IF st # OK THEN Reject(call, st, offset)
    ELSE IF components = <<>> THEN Panic(call)
    ELSE
      LET e == check_max(len, section.count, max, desc) IN
      /\ result' = IF e # OK THEN Err(call, e, offset)
                   ELSE IF section.good < section.count THEN Err(call, ItemError, section.at)
                   ELSE Ret(call, "Ok")
      /\ UNCHANGED <<state, expected, module, components, features, types, panicked>>

ensure_component_section(call, section, name, len, max, desc) ==
  LET offset == section.start IN
  IF ~features.component_model
  THEN Reject(call, "component model feature is not enabled", offset)
  ELSE
    LET st == ensure_component_state(state, name) IN
    IF st # OK THEN Reject(call, st, offset)
    ELSE IF components = <<>> THEN Panic(call)
    ELSE
      LET e == check_max(len, section.count, max, desc) IN
      /\ result' = IF e # OK THEN Err(call, e, offset)
                   ELSE IF section.good < section.count THEN Err(call, ItemError, section.at)
                   ELSE IF section.trailing THEN Err(call, EndError, section.at)
                   ELSE Ret(call, "Ok")
      /\ UNCHANGED <<state, expected, module, components, features, types, panicked>>

component_type_section(section) ==
  ensure_component_section("component_type_section", section, "type",
                           0, MAX_WASM_TYPES, "types")

\* no cap in the section closure: add_import / add_alias check the limits
component_import_section(section) ==
  ensure_component_section("component_import_section", section, "import",
                           0, section.count, "imports")

component_function_section(section) ==
  ensure_component_section("component_function_section", section, "function",
                           0, MAX_WASM_FUNCTIONS, "functions")

instance_section(section) ==
  ensure_component_section("instance_section", section, "instance",
                           0, MAX_WASM_INSTANCES, "instances")

component_export_section(section) ==
  ensure_component_section("component_export_section", section, "export",
                           0, MAX_WASM_EXPORTS, "exports")

alias_section(section) ==
  ensure_component_section("alias_section", section, "alias",
                           0, section.count, "aliases")

\* component_start_section: read the start function, then add_start; valid
\* tells whether both succeed.
component_start_section(valid, off) ==
  LET st == ensure_component_state(state, "start") IN
  IF st # OK THEN Reject("component_start_section", st, off)
  ELSE IF components = <<>> THEN Panic("component_start_section")
  ELSE /\ result' = IF valid THEN Ret("component_start_section", "Ok")
                    ELSE Err("component_start_section", ItemError, off)
       /\ UNCHANGED <<state, expected, module, components, features, types, panicked>>

\* no encoding recorded for the header that follows: any header is taken
nested_section_any_header(call, name, encoding, len, max, desc, off) ==
  LET st == ensure_component_state(state, name) IN
  IF st # OK THEN Reject(call, st, off)
  ELSE IF components = <<>> THEN Panic(call)
  ELSE
    LET e == check_max(len, 1, max, desc) IN
    IF e # OK THEN Reject(call, e, off)
    ELSE /\ state' = "Unparsed"
         /\ expected' = None
         /\ result' = Ret(call, "Parser")
         /\ UNCHANGED <<module, components, features, types, panicked>>

\* the payload answered with ValidPayload::Ok, the nested parser not handed
\* back to the caller
nested_section_no_parser(call, name, encoding, len, max, desc, off) ==
  LET st == ensure_component_state(state, name) IN
  IF st # OK THEN Reject(call, st, off)
  ELSE IF components = <<>> THEN Panic(call)
  ELSE
    LET e == check_max(len, 1, max, desc) IN
    IF e # OK THEN Reject(call, e, off)
    ELSE /\ state' = "Unparsed"
         /\ expected' = Some(encoding)
         /\ result' = Ret(call, "Ok")
         /\ UNCHANGED <<module, components, features, types, panicked>>

\* module_section / component_section: the header of a nested module or
\* component is expected next.
nested_section(call, name, encoding, len, max, desc, off) ==
  LET st == ensure_component_state(state, name) IN
  IF st # OK THEN Reject(call, st, off)
  ELSE IF components = <<>> THEN Panic(call)
  ELSE
    LET e == check_max(len, 1, max, desc) IN
    IF e # OK THEN Reject(call, e, off)
    ELSE /\ state' = "Unparsed"
         /\ expected' = Some(encoding)
         /\ result' = Ret(call, "Parser")
         /\ UNCHANGED <<module, components, features, types, panicked>>

Top(stack) == stack[Len(stack)]

module_section(off) ==
  nested_section("module_section", "module", "Module",
                 IF components = <<>> THEN 0 ELSE Top(components).modules,
                 MAX_WASM_MODULES, "modules", off)

component_section(off) ==
  nested_section("component_section", "component", "Component",
                 IF components = <<>> THEN 0 ELSE Top(components).components,
                 MAX_WASM_COMPONENTS, "components", off)

unknown_section(id, off) ==
  Reject("unknown_section", "malformed section id: " \o ToString(id), off)

\* ----------------------------------------------------------- Validator::end
\* ComponentState::add_module / add_component: the finished child's type is
\* pushed on the type list and recorded in the parent scope.
add_module(stack) ==
  [stack EXCEPT ![Len(stack)].modules = @ + 1]
add_component(stack) ==
  [stack EXCEPT ![Len(stack)].components = @ + 1]

\* the test on the stack left out: the state goes back to Component always
has_parent_component_always(stack) == TRUE

\* `if self.components.len() > 1`, tested after the pop
has_parent_component(stack) == Len(stack) > 1

\* the Types of a module made from a module state that was never filled
from_module_default(list, m) ==
  [kind |-> "Module", types |-> commit(list), module |-> Resources(ModuleStateDefault)]

\* Types::from_module(self.types.commit(), state.module.arc().clone())
from_module(list, m) ==
  [kind |-> "Module", types |-> commit(list), module |-> Resources(m)]

\* Types::from_component(self.types.commit(), component)
from_component(list, component) ==
  [kind |-> "Component", types |-> commit(list), component |-> component]

\* end that, called after parsing has completed, fails and leaves the
\* Validator ready for a new header
end_reopens(imports_ok, off) ==
  /\ state' = "Unparsed"
  /\ expected' = None
  /\ result' = Err("end", "cannot call end after parsing has completed", off)
  /\ UNCHANGED <<module, components, features, types, panicked>>

\* imports_ok: whether add_module can build the module's type (it fails on
\* import names that cannot be merged). A finished child pushes its type on
\* the TypeList before it is added to its parent.
end(imports_ok, off) ==
  CASE state = "Unparsed" ->
         /\ state' = "End"
         /\ expected' = None
         /\ result' = Err("end", "cannot call end before a header has been parsed", off)
         /\ UNCHANGED <<module, components, features, types, panicked>>
    [] state = "End" ->
         /\ result' = Err("end", "cannot call end after parsing has completed", off)
         /\ UNCHANGED <<state, expected, module, components, features, types, panicked>>
    [] state = "Module" ->
         IF ~module.some
         THEN /\ state' = "End"
              /\ panicked' = TRUE
              /\ result' = Panicked("end")
              /\ UNCHANGED <<expected, module, components, features, types>>
         ELSE
           LET ve == validate_end(module.val) IN
           /\ module' = None
           /\ expected' = None
           /\ IF ve # OK
              THEN /\ state' = "End"
                   /\ result' = Err("end", ve, off)
                   /\ UNCHANGED <<components, types>>
              ELSE IF components # <<>>
              THEN IF imports_ok
                   THEN /\ components' = add_module(components)
                        /\ types' = types + 1
                        /\ state' = "Component"
                        /\ result' = RetVal("end", "End", from_module(types', module.val))
                   ELSE /\ state' = "End"
                        /\ result' = Err("end", "duplicate import name", off)
                        /\ UNCHANGED <<components, types>>
              ELSE /\ state' = "End"
                   /\ result' = RetVal("end", "End", from_module(types, module.val))
                   /\ UNCHANGED <<components, types>>
           /\ UNCHANGED <<features, panicked>>
    [] state = "Component" ->
         IF components = <<>>
         THEN /\ state' = "End"
              /\ panicked' = TRUE
              /\ result' = Panicked("end")
              /\ UNCHANGED <<expected, module, components, features, types>>
         ELSE
           LET popped == SubSeq(components, 1, Len(components) - 1) IN
           /\ IF has_parent_component(popped)
              THEN /\ components' = add_component(popped)
                   /\ types' = types + 1
                   /\ state' = "Component"
              ELSE /\ components' = popped
                   /\ types' = types
                   /\ state' = "End"
           /\ expected' = None
           /\ result' = RetVal("end", "End",
                               from_component(types', components[Len(components)]))
           /\ UNCHANGED <<module, features, panicked>>

\* ------------------------------------------------------ Validator::payload
\* A payload is a record with its tag and what the parser decoded for it.
\* a custom section held to the rule of the other sections: refused outside
\* a module or a component
custom_section_in_body ==
  IF state \in {"Module", "Component"}
  THEN /\ result' = Ret("custom_section", "Ok")
       /\ UNCHANGED <<state, expected, module, components, features, types, panicked>>
  ELSE Reject("custom_section", "unexpected section", 0)

\* `CustomSection { .. } => {}`: no validation for custom sections
custom_section ==
  /\ result' = Ret("custom_section", "Ok")
  /\ UNCHANGED <<state, expected, module, components, features, types, panicked>>

payload(p) ==
  CASE p.tag = "Version" -> version(p.num, p.encoding, p.range.start)
    [] p.tag = "TypeSection" -> type_section(p.s)
    [] p.tag = "ImportSection" -> import_section(p.s)
    [] p.tag = "FunctionSection" -> function_section(p.s)
    [] p.tag = "TableSection" -> table_section(p.s)
    [] p.tag = "MemorySection" -> memory_section(p.s)
    [] p.tag = "TagSection" -> tag_section(p.s)
    [] p.tag = "GlobalSection" -> global_section(p.s)
    [] p.tag = "ExportSection" -> export_section(p.s)
    [] p.tag = "StartSection" -> start_section(p.func, p.range.start)
    [] p.tag = "ElementSection" -> element_section(p.s)
    [] p.tag = "DataCountSection" -> data_count_section(p.count, p.range.start)
    [] p.tag = "CodeSectionStart" -> code_section_start(p.count, p.range.start)
    [] p.tag = "CodeSectionEntry" -> code_section_entry(p.range.start)
    [] p.tag = "DataSection" -> data_section(p.s)
    [] p.tag = "ComponentTypeSection" -> component_type_section(p.s)
    [] p.tag = "ComponentImportSection" -> component_import_section(p.s)
    [] p.tag = "ComponentFunctionSection" -> component_function_section(p.s)
    [] p.tag = "ModuleSection" -> module_section(p.range.start)
    [] p.tag = "ComponentSection" -> component_section(p.range.start)
    [] p.tag = "InstanceSection" -> instance_section(p.s)
    [] p.tag = "ComponentExportSection" -> component_export_section(p.s)
    [] p.tag = "ComponentStartSection" -> component_start_section(p.valid, p.range.start)
    [] p.tag = "AliasSection" -> alias_section(p.s)
    [] p.tag = "End" -> end(p.imports_ok, p.offset)
    [] p.tag = "CustomSection" -> custom_section
    [] p.tag = "UnknownSection" -> unknown_section(p.id, p.range.start)

\* ------------------------------------ BinaryReader (binary_reader.rs)
\* A BinaryReader is [buffer, position, original_offset]; position counts the
\* bytes consumed, so the next byte is buffer[position + 1].  Every read
\* returns the reader as the call left it.

\* The byte values section payloads are made of: 0, 1 and 2 are the three
\* defined flags, 11 is the `end` opcode, 65 is `i32.const`.
Bytes == {0, 1, 2, 11, 65}

original_position(b) == b.original_offset + b.position

ReadOk(v, b) == [ok |-> TRUE, val |-> v, reader |-> b]
ReadErr(m, off, b) == [ok |-> FALSE, msg |-> m, offset |-> off, reader |-> b]

\* The `?` of a fallible read: an error returns at once, a value goes on.
Try(r, k(_)) == IF r.ok THEN k(r) ELSE r

read_u8(b) ==
  IF b.position < Len(b.buffer)
    THEN ReadOk(b.buffer[b.position + 1], [b EXCEPT !.position = @ + 1])
    ELSE ReadErr("unexpected end-of-file", original_position(b), b)

RECURSIVE read_var_u32_loop(_, _, _)
read_var_u32_loop(b, acc, shift) ==
  Try(read_u8(b), LAMBDA r :
    IF shift >= 25 /\ (r.val \div (2 ^ (32 - shift))) # 0
      THEN ReadErr(IF r.val >= 128
                     THEN "invalid var_u32: integer representation too long"
                     ELSE "invalid var_u32: integer too large",
                   original_position(r.reader) - 1, r.reader)
    ELSE IF r.val < 128
      THEN ReadOk(acc + (r.val % 128) * (2 ^ shift), r.reader)
      ELSE read_var_u32_loop(r.reader, acc + (r.val % 128) * (2 ^ shift), shift + 7))

\* unsigned LEB128, at most five bytes
read_var_u32(b) ==
  Try(read_u8(b), LAMBDA r :
    IF r.val < 128 THEN r ELSE read_var_u32_loop(r.reader, r.val % 128, 7))

\* The immediate of a block: one byte of a signed LEB128, a type index when it
\* is not negative.
read_blocktype(b) ==
  Try(read_u8(b), LAMBDA r :
    IF r.val >= 64 THEN ReadErr("invalid function type", original_position(b), b) ELSE r)

\* One operator with its immediates.
read_operator(b) ==
  Try(read_u8(b), LAMBDA r :
    CASE r.val = 0  -> ReadOk("Unreachable", r.reader)
      [] r.val = 1  -> ReadOk("Nop", r.reader)
      [] r.val = 2  -> Try(read_blocktype(r.reader), LAMBDA t : ReadOk("Block", t.reader))
      [] r.val = 11 -> ReadOk("End", r.reader)
      [] r.val = 65 -> Try(read_var_u32(r.reader), LAMBDA v : ReadOk("I32Const", v.reader))
      [] OTHER      -> ReadErr("illegal opcode", original_position(b), b))

\* scan operators until the `end` that closes the expression itself
RECURSIVE skip_init_expr_loop(_, _)
skip_init_expr_loop(b, depth) ==
  Try(read_operator(b), LAMBDA op :
    IF op.val = "End" /\ depth = 0 THEN op
    ELSE skip_init_expr_loop(op.reader,
                             IF op.val = "End" THEN depth - 1
                             ELSE IF op.val = "Block" THEN depth + 1
                             ELSE depth))

skip_init_expr(b) == skip_init_expr_loop(b, 0)

skip_to(b, position) == [b EXCEPT !.position = position]

\* ----------------------------------------- DataSectionReader (data.rs)
DataSectionReader_new(data, offset) ==
  LET count == read_var_u32([buffer |-> data, position |-> 0, original_offset |-> offset]) IN
    IF ~count.ok THEN count
    ELSE ReadOk([reader |-> count.reader, count |-> count.val,
                 forbid_bulk_memory |-> FALSE], count.reader)

forbid_bulk_memory(self, forbid) == [self EXCEPT !.forbid_bulk_memory = forbid]

verify_data_end(self, data_end) ==
  IF Len(self.reader.buffer) < data_end
    THEN ReadErr("unexpected end of section or function: data segment extends past end of the data section",
                 self.reader.original_offset + Len(self.reader.buffer), self.reader)
    ELSE ReadOk(data_end, self.reader)

\* `match flags { 0 => 0, _ if forbid => flags, 2 => read_var_u32()?, _ => Err }`
\* with the flags already read and b the reader after them.
memory_index_flags_only(forbid, flags, b) ==
  CASE flags = 0 -> ReadOk(0, b)
    [] flags = 2 -> read_var_u32(b)
    [] OTHER     -> ReadErr("invalid flags byte in data segment", original_position(b) - 1, b)

memory_index_implicit(forbid, flags, b) ==
  CASE flags = 0 \/ flags = 2 -> ReadOk(0, b)
    [] flags # 0 /\ flags # 2 /\ forbid -> ReadOk(flags, b)
    [] OTHER -> ReadErr("invalid flags byte in data segment", original_position(b) - 1, b)

memory_index(forbid, flags, b) ==
  CASE flags = 0 -> ReadOk(0, b)
    [] flags # 0 /\ forbid -> ReadOk(flags, b)
    [] flags # 0 /\ ~forbid /\ flags = 2 -> read_var_u32(b)
    [] OTHER -> ReadErr("invalid flags byte in data segment", original_position(b) - 1, b)

Passive == [tag |-> "Passive"]
Active(memory_index_, init_expr) ==
  [tag |-> "Active", memory_index |-> memory_index_, init_expr |-> init_expr]
InitExpr(data, offset) == [data |-> data, offset |-> offset]

\* The kind of the segment whose flags were just read.
read_kind(self, flags, b) ==
  IF ~self.forbid_bulk_memory /\ flags = 1
    THEN ReadOk(Passive, b)
    ELSE Try(memory_index(self.forbid_bulk_memory, flags, b), LAMBDA index :
           Try(skip_init_expr(index.reader), LAMBDA skipped :
             ReadOk(Active(index.val,
                           InitExpr(SubSeq(b.buffer, index.reader.position + 1,
                                           skipped.reader.position),
                                    b.original_offset + index.reader.position)),
                    skipped.reader)))

Data(kind, data, range) == [kind |-> kind, data |-> data, range |-> range]
Range(start, end_) == [start |-> start, end |-> end_]

\* The body of DataSectionReader::read, every `?` a Try.
read_segment(self) ==
  Try(read_var_u32(self.reader), LAMBDA flags :
    Try(read_kind(self, flags.val, flags.reader), LAMBDA kind :
      Try(read_var_u32(kind.reader), LAMBDA data_len :
        Try(verify_data_end([self EXCEPT !.reader = data_len.reader],
                            data_len.reader.position + data_len.val), LAMBDA data_end :
          ReadOk(Data(kind.val,
                      SubSeq(self.reader.buffer, data_len.reader.position + 1, data_end.val),
                      Range(original_position(self.reader),
                            original_position(skip_to(data_len.reader, data_end.val)))),
                 skip_to(data_len.reader, data_end.val))))))

\* What a call leaves and returns: the reader stays where the call stopped.
Returned(self, r) ==
  [self |-> [self EXCEPT !.reader = r.reader],
   ret  |-> IF r.ok
              THEN [call |-> "read", ok |-> TRUE, kind |-> r.val.kind,
                    data |-> r.val.data, range |-> r.val.range]
              ELSE [call |-> "read", ok |-> FALSE, msg |-> r.msg, offset |-> r.offset]]

read(self) == Returned(self, read_segment(self))

\* ------------------------------------------------------------------ Spec
\* Every sequence of calls a caller can make on one Validator, with sections
\* of at most MaxCount items. Offsets are not explored here: every payload
\* starts at offset 0.
Offsets == {0}
Versions == {WASM_MODULE_VERSION, WASM_COMPONENT_VERSION, 2}
Small == Sections(SmallCounts, Offsets)

Next ==
  \/ \E num \in Versions, encoding \in Encodings, off \in Offsets :
       /\ Len(components) < MaxDepth
       /\ version(num, encoding, off) /\ Idle
  \/ \E s \in Items("TypeSection", Small) :
       s.item = FuncType(<<>>, <<>>) /\ type_section(s) /\ Idle
  \/ \E s \in Small : import_section(s) /\ Idle
  \/ \E s \in Items("FunctionSection", Small) :
       s.item = 0 /\ function_section(s) /\ Idle
  \/ \E s \in Small : table_section(s) /\ Idle
  \/ \E s \in Small : memory_section(s) /\ Idle
  \/ \E s \in Small : tag_section(s) /\ Idle
  \/ \E s \in Small : global_section(s) /\ Idle
  \/ \E s \in Small : export_section(s) /\ Idle
  \/ \E func \in SmallCounts, off \in Offsets : start_section(func, off) /\ Idle
  \/ \E s \in Small : element_section(s) /\ Idle
  \/ \E count \in SmallCounts, off \in Offsets : data_count_section(count, off) /\ Idle
  \/ \E count \in 0..(MaxCount + 1), off \in Offsets :
       code_section_start(count, off) /\ Idle
  \/ \E off \in Offsets : code_section_entry(off) /\ Idle
  \/ \E s \in Small : data_section(s) /\ Idle
  \/ \E s \in Small : component_type_section(s) /\ Idle
  \/ \E s \in Small : component_import_section(s) /\ Idle
  \/ \E s \in Small : component_function_section(s) /\ Idle
  \/ \E s \in Small : instance_section(s) /\ Idle
  \/ \E s \in Small : component_export_section(s) /\ Idle
  \/ \E valid \in BOOLEAN, off \in Offsets : component_start_section(valid, off) /\ Idle
  \/ \E s \in Small : alias_section(s) /\ Idle
  \/ \E off \in Offsets :
       /\ components # <<>> => Top(components).modules < MaxChildren
       /\ module_section(off) /\ Idle
  \/ \E off \in Offsets :
       /\ components # <<>> => Top(components).components < MaxChildren
       /\ component_section(off) /\ Idle
  \/ \E id \in {14, 255}, off \in Offsets : unknown_section(id, off) /\ Idle
  \/ custom_section /\ Idle
  \/ \E imports_ok \in BOOLEAN, off \in Offsets : end(imports_ok, off) /\ Idle

vars == <<state, expected, module, components, features, types, result, panicked, data_reader, item, driver>>

Spec == Init /\ [][Next]_vars

\* ------------------------------------------------------------ SpecModule
\* A caller that feeds the payloads of one binary to the Validator in any
\* order and, like validate_all, stops at the first error. The sections
\* declare small counts, counts at a limit and counts past it.
DataCounts == (0..(MaxCount + 1)) \cup {MAX_WASM_DATA_SEGMENTS, MAX_WASM_DATA_SEGMENTS + 1}
Wide(max) == Sections(SmallCounts \cup {max + 1}, Offsets)
Going == result.ok

NextModule ==
  \/ \E num \in Versions, encoding \in Encodings, off \in Offsets :
       Going /\ version(num, encoding, off) /\ Idle
  \/ \E s \in Items("TypeSection", Wide(MAX_WASM_TYPES)) :
       s.item = FuncType(<<>>, <<>>) /\ Going /\ type_section(s) /\ Idle
  \/ \E s \in Sections(0..(MaxCount + 1), Offsets) : Going /\ import_section(s) /\ Idle
  \/ \E s \in Items("FunctionSection", Wide(MAX_WASM_FUNCTIONS)) :
       s.item = 0 /\ Going /\ function_section(s) /\ Idle
  \/ \E s \in Wide(MAX_WASM_TABLES) : Going /\ table_section(s) /\ Idle
  \/ \E s \in Sections((0..(MaxCount + 1)) \cup {MAX_WASM_MEMORIES + 1}, Offsets) :
       Going /\ memory_section(s) /\ Idle
  \/ \E s \in Wide(MAX_WASM_TAGS) : Going /\ tag_section(s) /\ Idle
  \/ \E s \in Wide(MAX_WASM_GLOBALS) : Going /\ global_section(s) /\ Idle
  \/ \E s \in Wide(MAX_WASM_EXPORTS) : Going /\ export_section(s) /\ Idle
  \/ \E func \in SmallCounts, off \in Offsets :
       Going /\ start_section(func, off) /\ Idle
  \/ \E s \in Wide(MAX_WASM_ELEMENT_SEGMENTS) : Going /\ element_section(s) /\ Idle
  \/ \E count \in DataCounts, off \in Offsets :
       Going /\ data_count_section(count, off) /\ Idle
  \/ \E count \in 0..(MaxCount + 1), off \in Offsets :
       Going /\ code_section_start(count, off) /\ Idle
  \/ \E off \in Offsets : Going /\ code_section_entry(off) /\ Idle
  \/ \E s \in Sections(DataCounts, Offsets) : Going /\ data_section(s) /\ Idle
  \/ /\ Going
     /\ result.call # "custom_section"
     /\ custom_section /\ Idle
  \/ \E off \in Offsets : Going /\ end(TRUE, off) /\ Idle

SpecModule == Init /\ [][NextModule]_vars

\* ------------------------------------------------------------- SpecStart
\* The start function of one module: a Type section of any function type, a
\* Function section of any type index, then the Start section.
NextStart ==
  \/ \E num \in Versions, encoding \in Encodings, off \in Offsets :
       Going /\ version(num, encoding, off) /\ Idle
  \/ \E s \in Items("TypeSection", Small) : Going /\ type_section(s) /\ Idle
  \/ \E s \in Items("FunctionSection", Small) : Going /\ function_section(s) /\ Idle
  \/ \E s \in Small : Going /\ memory_section(s) /\ Idle
  \/ \E func \in SmallCounts, off \in Offsets :
       Going /\ start_section(func, off) /\ Idle
  \/ \E off \in Offsets : Going /\ end(TRUE, off) /\ Idle

SpecStart == Init /\ [][NextStart]_vars

\* -------------------------------------------------------------- SpecData
\* A data section reader over every short payload, as its users drive it:
\* Validator::data_section sets the forbid flag from the features before it
\* reads, and read is called item after item.
Buffers(n) == UNION {[1..k -> Bytes] : k \in 1..n}

SectionOffsets == {0, 4}

InitData ==
  /\ state = "Module"
  /\ expected = None
  /\ module = Some(ModuleStateDefault)
  /\ components = <<>>
  /\ result = NoResult
  /\ panicked = FALSE
  /\ types = 0
  /\ features \in {WasmFeaturesDefault, [WasmFeaturesDefault EXCEPT !.bulk_memory = FALSE]}
  /\ item = NoItem
  /\ driver = NoDriver
  /\ \E data \in Buffers(MaxLen), offset \in SectionOffsets :
       LET new == DataSectionReader_new(data, offset) IN
         /\ new.ok
         /\ data_reader = new.val

\* validator.rs: `section.forbid_bulk_memory(!self.features.bulk_memory)`
ForbidBulkMemory ==
  /\ item = NoItem
  /\ data_reader' = forbid_bulk_memory(data_reader, ~features.bulk_memory)
  /\ data_reader' # data_reader
  /\ UNCHANGED <<item, driver, state, expected, module, components, features, types, result, panicked>>

Read ==
  /\ data_reader' = read(data_reader).self
  /\ item' = read(data_reader).ret
  /\ UNCHANGED <<driver, state, expected, module, components, features, types, result, panicked>>

NextData == ForbidBulkMemory \/ Read

SpecData == InitData /\ [][NextData]_vars

\* --------------------------------------------------------------- SpecPar
\* A caller that feeds the Validator the payloads of a parser and hands each
\* FuncValidator to a worker: the bodies are validated in any order, while
\* the caller goes on with the later payloads. driver.code counts the code
\* entries the parser still owes, driver.pool holds what was handed out.
\* The FuncValidator shares the Module of its module state (an Arc): while
\* the module state is alive (`live`) it reads what the Validator holds, once
\* the module state is dropped it reads what was left there.
Bodies == {"end", "i32.const 0 end", "memory.size drop end"}

\* FuncValidator::validate: a memory operator needs memory 0, and at the end
\* of the body the stack must hold exactly the results of the function type.
func_validate(fv, resources, body) ==
  IF body = "memory.size drop end" /\ resources.memories = 0
  THEN "unknown memory 0"
  ELSE IF fv.ty.returns # (IF body = "i32.const 0 end" THEN <<"I32">> ELSE <<>>)
  THEN "type mismatch"
  ELSE OK

InitPar ==
  /\ data_reader = NoReader
  /\ item = NoItem
  /\ driver = [pc |-> "par", code |-> 0, nested |-> 0, pool |-> <<>>]
  /\ state = StateDefault.state
  /\ expected = StateDefault.expected
  /\ module = None
  /\ components = <<>>
  /\ features \in FeatureSets
  /\ result = NoResult
  /\ panicked = FALSE
  /\ types = 0

\* The caller feeds payload p; on End the module state is dropped and the
\* FuncValidators of the module keep the Module as it was left.
ParPayload(p) ==
  /\ Going
  /\ payload(p)
  /\ LET kept == [i \in DOMAIN driver.pool |->
                   IF driver.pool[i].live /\ p.tag = "End"
                   THEN [driver.pool[i] EXCEPT !.live = FALSE,
                                               !.fv.resources = Resources(module.val)]
                   ELSE driver.pool[i]]
     IN driver' =
          IF ~result'.ok THEN [driver EXCEPT !.pool = kept]
          ELSE CASE p.tag = "CodeSectionStart" -> [driver EXCEPT !.code = p.count]
                 [] p.tag = "CodeSectionEntry" ->
                      [driver EXCEPT
                         !.code = @ - 1,
                         !.pool = Append(@,
                           [fv |-> result'.val, body |-> p.body, live |-> TRUE,
                            inline |-> func_validate(result'.val, result'.val.resources,
                                                     p.body),
                            outcome |-> "pending"])]
                 [] p.tag = "ModuleSection" -> [driver EXCEPT !.nested = @ + 1]
                 [] OTHER -> [driver EXCEPT !.pool = kept]
  /\ UNCHANGED <<data_reader, item>>

\* A worker validates the body it was handed.
ParValidate ==
  /\ \E i \in DOMAIN driver.pool :
       /\ driver.pool[i].outcome = "pending"
       /\ driver' =
            [driver EXCEPT
               !.pool[i].outcome =
                  func_validate(driver.pool[i].fv,
                                IF driver.pool[i].live THEN Resources(module.val)
                                ELSE driver.pool[i].fv.resources,
                                driver.pool[i].body)]
  /\ UNCHANGED <<state, expected, module, components, features, types, result, panicked,
                 data_reader, item>>

ParBody == state \in {"Module", "Component"} /\ driver.code = 0

NextPar ==
  \/ /\ state = "Unparsed"
     /\ \E num \in Versions, encoding \in Encodings :
          ParPayload([tag |-> "Version", num |-> num, encoding |-> encoding,
                      range |-> [start |-> 0]])
  \/ /\ ParBody
     /\ \E s \in Items("TypeSection", Small) : ParPayload([tag |-> "TypeSection", s |-> s])
  \/ /\ ParBody
     /\ \E s \in Items("FunctionSection", Sections(0..MaxBodies, Offsets)) :
          ParPayload([tag |-> "FunctionSection", s |-> s])
  \/ /\ ParBody
     /\ \E s \in Small : ParPayload([tag |-> "MemorySection", s |-> s])
  \/ /\ ParBody
     /\ \E count \in 0..MaxBodies :
          ParPayload([tag |-> "CodeSectionStart", count |-> count, range |-> [start |-> 0]])
  \/ /\ state = "Module" /\ driver.code > 0 /\ Len(driver.pool) < MaxBodies
     /\ \E body \in Bodies :
          ParPayload([tag |-> "CodeSectionEntry", body |-> body, range |-> [start |-> 0]])
  \/ /\ ParBody /\ driver.nested < MaxBodies
     /\ ParPayload([tag |-> "ModuleSection", range |-> [start |-> 0]])
  \/ /\ ParBody
     /\ ParPayload([tag |-> "End", offset |-> 0, imports_ok |-> TRUE])
  \/ ParValidate

SpecPar == InitPar /\ [][NextPar]_vars

\* --------------------------------------------------------------- SpecAll
\* Validator::validate_all over an input of at most MaxInput units, a unit
\* being what one header, one section header or one function body takes.
\* The parser of parse_all is a stack of parsers, each with the stage it is
\* in, the units left in its window and the code entries it still owes.
Parser(stage, left) == [stage |-> stage, left |-> left, code |-> 0]

InitAll ==
  /\ data_reader = NoReader
  /\ item = NoItem
  /\ state = StateDefault.state
  /\ expected = StateDefault.expected
  /\ module = None
  /\ components = <<>>
  /\ features \in FeatureSets
  /\ result = NoResult
  /\ panicked = FALSE
  /\ types = 0
  /\ \E len \in 0..MaxInput :
       driver = [pc |-> "parsing", len |-> len, pos |-> 0,
                 cur |-> Parser("header", len), stack |-> <<>>,
                 functions_to_validate |-> <<>>, validated |-> 0,
                 last_types |-> None,
                 outcome |-> "running", offset |-> 0]

\* parse_all after it has yielded payload p: the bytes are consumed, a nested
\* parser takes over for its window, End hands back to the parent parser and
\* ends the iteration at the top level.
parse_all(d, p) ==
  CASE p.tag \in {"ModuleSection", "ComponentSection"} ->
         [d EXCEPT !.pos = @ + 1,
                   !.stack = Append(@, [d.cur EXCEPT !.left = @ - 1 - p.size]),
                   !.cur = Parser("header", p.size)]
    [] p.tag = "End" ->
         IF d.stack = <<>>
           THEN [d EXCEPT !.pc = "functions"]
           ELSE [d EXCEPT !.cur = Top(d.stack),
                          !.stack = SubSeq(@, 1, Len(@) - 1)]
    [] p.tag = "Version" ->
         [d EXCEPT !.pos = @ + 1, !.cur.left = @ - 1, !.cur.stage = "body"]
    [] p.tag = "CodeSectionStart" ->
         [d EXCEPT !.pos = @ + 1, !.cur.left = @ - 1, !.cur.code = p.count]
    [] p.tag = "CodeSectionEntry" ->
         [d EXCEPT !.pos = @ + 1, !.cur.left = @ - 1, !.cur.code = @ - 1]
    [] OTHER ->
         [d EXCEPT !.pos = @ + 1, !.cur.left = @ - 1]

\* `?`: validate_all returns the error, or unwinds with the panic
Fail(d, ret, offset) ==
  [d EXCEPT !.pc = "done", !.outcome = ret, !.offset = offset]

\* the match without the ValidPayload::End arm
last_types_kept(last_types, ret) == last_types

\* `ValidPayload::End(types) => last_types = Some(types)`
last_types_after(last_types, r) ==
  IF r.ret = "End" THEN Some(r.val) ELSE last_types

\* `ValidPayload::Func(a, b) => functions_to_validate.push((a, b))`
functions_after(functions_to_validate, ret, p) ==
  IF ret = "Func" THEN Append(functions_to_validate, p.range)
  ELSE functions_to_validate

\* a loop that validates each function body as soon as its payload has been
\* validated, instead of keeping it for later
validate_all_step_inline(p) ==
  /\ payload(p)
  /\ IF ~result'.ok THEN driver' = Fail(driver, result'.ret, result'.offset)
     ELSE IF result'.ret = "Func"
     THEN \/ driver' = [parse_all(driver, p) EXCEPT !.validated = @ + 1]
          \/ \E off \in {p.range.start, p.range.end} :
               driver' = Fail(driver, "Err", off)
     ELSE driver' = [parse_all(driver, p) EXCEPT
                       !.last_types = last_types_after(@, result')]
  /\ UNCHANGED <<data_reader, item>>

\* One turn of the for loop over the payloads.
validate_all_step(p) ==
  /\ payload(p)
  /\ driver' =
       IF ~result'.ok THEN Fail(driver, result'.ret, result'.offset)
       ELSE [parse_all(driver, p) EXCEPT
               !.functions_to_validate = functions_after(@, result'.ret, p),
               !.last_types = last_types_after(@, result')]
  /\ UNCHANGED <<data_reader, item>>

Parsing == driver.pc = "parsing"
AtHeader == Parsing /\ driver.cur.stage = "header" /\ driver.cur.left >= 1
AtEnd == Parsing /\ driver.cur.stage = "body" /\ driver.cur.left = 0 /\ driver.cur.code = 0
InBody == Parsing /\ driver.cur.stage = "body" /\ driver.cur.left >= 1 /\ driver.cur.code = 0
InCode == Parsing /\ driver.cur.stage = "body" /\ driver.cur.left >= 1 /\ driver.cur.code > 0
Here == [start |-> driver.pos, end |-> driver.pos + 1]
SectionsHere ==
  { [s EXCEPT !.at = a] : s \in Sections(SmallCounts, {driver.pos}),
                          a \in {driver.pos, driver.pos + 1} }
SectionHere(tag) ==
  \E s \in Items(tag, SectionsHere) : validate_all_step([tag |-> tag, s |-> s])

\* `payload?`: the parser fails on the bytes of the window it is in
AllParseError ==
  /\ Parsing /\ ~AtEnd
  /\ \E off \in driver.pos..(driver.pos + driver.cur.left) :
       driver' = Fail(driver, "Err", off)
  /\ UNCHANGED <<state, expected, module, components, features, types, result, panicked,
                 data_reader, item>>

\* The parser yields the version word with the encoding it selects; a word
\* it does not know is one of its errors.
AllVersion ==
  /\ AtHeader
  /\ \E num \in {WASM_MODULE_VERSION, WASM_COMPONENT_VERSION} :
       validate_all_step([tag |-> "Version", num |-> num,
                          encoding |-> IF num = WASM_MODULE_VERSION THEN "Module"
                                       ELSE "Component",
                          range |-> Here])
AllEnd ==
  /\ AtEnd
  /\ \E imports_ok \in BOOLEAN :
       validate_all_step([tag |-> "End", offset |-> driver.pos, imports_ok |-> imports_ok])

\* `validator.validate(&body)?` for the next deferred function body
AllValidateFunction ==
  /\ driver.pc = "functions"
  /\ driver.functions_to_validate # <<>>
  /\ \/ driver' = [driver EXCEPT !.functions_to_validate = Tail(@),
                                 !.validated = @ + 1]
     \/ \E off \in {Head(driver.functions_to_validate).start,
                    Head(driver.functions_to_validate).end} :
          driver' = Fail(driver, "Err", off)
  /\ UNCHANGED <<state, expected, module, components, features, types, result, panicked,
                 data_reader, item>>

\* `Ok(last_types.unwrap())`
AllReturn ==
  /\ driver.pc = "functions"
  /\ driver.functions_to_validate = <<>>
  /\ driver' = IF driver.last_types.some THEN Fail(driver, "Ok", 0)
               ELSE Fail(driver, "Panic", 0)
  /\ UNCHANGED <<state, expected, module, components, features, types, result, panicked,
                 data_reader, item>>

NextAll ==
  \/ AllParseError \/ AllVersion
  \/ InBody /\ SectionHere("TypeSection")
  \/ InBody /\ SectionHere("ImportSection")
  \/ InBody /\ SectionHere("FunctionSection")
  \/ InBody /\ SectionHere("TableSection")
  \/ InBody /\ SectionHere("MemorySection")
  \/ InBody /\ SectionHere("TagSection")
  \/ InBody /\ SectionHere("GlobalSection")
  \/ InBody /\ SectionHere("ExportSection")
  \/ InBody /\ SectionHere("ElementSection")
  \/ InBody /\ SectionHere("DataSection")
  \/ InBody /\ SectionHere("ComponentTypeSection")
  \/ InBody /\ SectionHere("ComponentImportSection")
  \/ InBody /\ SectionHere("ComponentFunctionSection")
  \/ InBody /\ SectionHere("InstanceSection")
  \/ InBody /\ SectionHere("ComponentExportSection")
  \/ InBody /\ SectionHere("AliasSection")
  \/ /\ InBody
     /\ \E func \in SmallCounts :
          validate_all_step([tag |-> "StartSection", func |-> func,
                             range |-> Here])
  \/ /\ InBody
     /\ \E count \in SmallCounts :
          validate_all_step([tag |-> "DataCountSection", count |-> count, range |-> Here])
  \/ /\ InBody
     /\ \E count \in SmallCounts :
          validate_all_step([tag |-> "CodeSectionStart", count |-> count, range |-> Here])
  \/ /\ InCode
     /\ validate_all_step([tag |-> "CodeSectionEntry", range |-> Here])
  \/ /\ InBody
     /\ \E valid \in BOOLEAN :
          validate_all_step([tag |-> "ComponentStartSection", valid |-> valid, range |-> Here])
  \/ /\ InBody
     /\ \E size \in 0..(driver.cur.left - 1) :
          validate_all_step([tag |-> "ModuleSection", size |-> size, range |-> Here])
  \/ /\ InBody
     /\ \E size \in 0..(driver.cur.left - 1) :
          validate_all_step([tag |-> "ComponentSection", size |-> size, range |-> Here])
  \/ /\ InBody
     /\ \E id \in {14, 255} :
          validate_all_step([tag |-> "UnknownSection", id |-> id, range |-> Here])
  \/ /\ InBody
     /\ validate_all_step([tag |-> "CustomSection", range |-> Here])
  \/ AllEnd \/ AllValidateFunction \/ AllReturn

SpecAll == InitAll /\ [][NextAll]_vars

\* ------------------------------------------------------------ SpecHeader
\* Validator::validate_all on every 8-byte input of a small alphabet, called
\* once, and then a second time on the same bytes, with the same Validator or
\* with a fresh one of the same features. driver.first is what the first
\* call returned.
HeaderBytes ==
  { <<0, 97, 115, m, v0, v1, v2, 0>> :
      m \in {109, 110}, v0 \in {0, 1, 2, 10}, v1 \in {0, 1}, v2 \in {0, 1} }

\* Parser::parse in its header state: read_file_header checks the magic
\* number and reads the version word, which selects the encoding
parse_header_unchecked(bytes) ==
  LET num == bytes[5] + 256 * bytes[6] + 65536 * bytes[7] + 16777216 * bytes[8] IN
  IF SubSeq(bytes, 1, 4) # <<0, 97, 115, 109>>
  THEN [err |-> "magic header not detected: bad magic number", offset |-> 0]
  ELSE [err |-> OK, num |-> num,
        encoding |-> IF num = WASM_COMPONENT_VERSION THEN "Component" ELSE "Module"]

parse_header(bytes) ==
  LET num == bytes[5] + 256 * bytes[6] + 65536 * bytes[7] + 16777216 * bytes[8] IN
  IF SubSeq(bytes, 1, 4) # <<0, 97, 115, 109>>
  THEN [err |-> "magic header not detected: bad magic number", offset |-> 0]
  ELSE IF num = WASM_MODULE_VERSION THEN [err |-> OK, num |-> num, encoding |-> "Module"]
  ELSE IF num = WASM_COMPONENT_VERSION
  THEN [err |-> OK, num |-> num, encoding |-> "Component"]
  ELSE [err |-> "unknown binary version", offset |-> 4]

\* validate_all returns: Ok(types), the error of `?`, or it unwinds
Finish(d, outcome, msg, offset, last_types) ==
  [d EXCEPT !.pc = "done", !.outcome = outcome, !.msg = msg, !.offset = offset,
            !.last_types = last_types]

InitHeader ==
  /\ data_reader = NoReader
  /\ item = NoItem
  /\ state = StateDefault.state
  /\ expected = StateDefault.expected
  /\ module = None
  /\ components = <<>>
  /\ features \in FeatureSets
  /\ result = NoResult
  /\ panicked = FALSE
  /\ types = 0
  /\ \E b \in HeaderBytes :
       driver = [pc |-> "header", bytes |-> b, pass |-> 1, fresh |-> TRUE,
                 outcome |-> "running", msg |-> OK, offset |-> 0,
                 last_types |-> None, first |-> [outcome |-> "none"]]

\* the first payload: `payload?` fails, or Version goes to the Validator
HeaderVersion ==
  /\ driver.pc = "header"
  /\ LET h == parse_header(driver.bytes) IN
     IF h.err # OK
     THEN /\ driver' = Finish(driver, "Err", h.err, h.offset, None)
          /\ UNCHANGED <<state, expected, module, components, features, types, result,
                         panicked>>
     ELSE /\ version(h.num, h.encoding, 0)
          /\ driver' = IF result'.ok THEN [driver EXCEPT !.pc = "body"]
                       ELSE Finish(driver, result'.ret, result'.msg, result'.offset, None)
  /\ UNCHANGED <<data_reader, item>>

\* the second and last payload, End, and the return of validate_all
HeaderEnd ==
  /\ driver.pc = "body"
  /\ end(TRUE, 8)
  /\ driver' =
       IF ~result'.ok
       THEN Finish(driver, result'.ret, result'.msg, result'.offset, None)
       ELSE Finish(driver, "Ok", OK, 0, last_types_after(driver.last_types, result'))
  /\ UNCHANGED <<data_reader, item>>

\* validate_all is called again on the same bytes, on this Validator or on a
\* new one
HeaderAgain ==
  /\ driver.pc = "done" /\ driver.pass = 1 /\ driver.outcome # "Panic"
  /\ \E fresh \in BOOLEAN :
       /\ driver' = [pc |-> "header", bytes |-> driver.bytes, pass |-> 2,
                     fresh |-> fresh, outcome |-> "running", msg |-> OK, offset |-> 0,
                     last_types |-> None,
                     first |-> [outcome |-> driver.outcome, msg |-> driver.msg,
                                offset |-> driver.offset,
                                last_types |-> driver.last_types]]
       /\ IF fresh
          THEN /\ state' = StateDefault.state
               /\ expected' = StateDefault.expected
               /\ module' = None
               /\ components' = <<>>
               /\ result' = NoResult
               /\ types' = 0
          ELSE UNCHANGED <<state, expected, module, components, result, types>>
  /\ UNCHANGED <<features, panicked, data_reader, item>>

NextHeader == HeaderVersion \/ HeaderEnd \/ HeaderAgain

SpecHeader == InitHeader /\ [][NextHeader]_vars

\* -------------------------------------------------------------- SpecNest
\* A component under validation that already holds some nested modules and
\* components, none or as many as the caps allow, and a caller that hands
\* it payloads of every kind through Validator::payload. The sections are
\* empty ones: what is told here is the place of a payload, not its items.
NestSectionTags ==
  {"TypeSection", "ImportSection", "FunctionSection", "TableSection",
   "MemorySection", "TagSection", "GlobalSection", "ExportSection",
   "ElementSection", "DataSection", "ComponentTypeSection",
   "ComponentImportSection", "ComponentFunctionSection", "InstanceSection",
   "ComponentExportSection", "AliasSection"}

NestSections(t) == {[tag |-> t, s |-> s] : s \in Items(t, Sections({0}, Offsets))}

NestPayloads ==
  {[tag |-> "Version", num |-> num, encoding |-> e, range |-> [start |-> 0, end |-> 8]] :
          num \in Versions, e \in Encodings}
  \cup {[tag |-> t, range |-> [start |-> 0, end |-> 1]] :
          t \in {"ModuleSection", "ComponentSection", "CodeSectionEntry"}}
  \cup {[tag |-> "StartSection", func |-> 0, range |-> [start |-> 0, end |-> 1]],
        [tag |-> "DataCountSection", count |-> 0, range |-> [start |-> 0, end |-> 1]],
        [tag |-> "CodeSectionStart", count |-> 0, range |-> [start |-> 0, end |-> 1]],
        [tag |-> "ComponentStartSection", valid |-> TRUE, range |-> [start |-> 0, end |-> 1]],
        [tag |-> "End", offset |-> 0, imports_ok |-> TRUE],
        [tag |-> "CustomSection"],
        [tag |-> "UnknownSection", id |-> 14, range |-> [start |-> 0, end |-> 1]]}

InitNest ==
  /\ data_reader = NoReader
  /\ item = NoItem
  /\ driver = NoDriver
  /\ state = "Component"
  /\ expected = None
  /\ module = None
  /\ \E m \in {0, MAX_WASM_MODULES}, c \in {0, MAX_WASM_COMPONENTS} :
       components = <<[modules |-> m, components |-> c]>>
  /\ features \in {f \in [DOMAIN WasmFeaturesDefault -> BOOLEAN] :
                     /\ f.component_model /\ f.bulk_memory /\ f.reference_types
                     /\ ~f.multi_memory}
  /\ result = Ret("version", "Ok")
  /\ panicked = FALSE
  /\ types = 0

NextNest ==
  \/ \E t \in NestSectionTags : \E p \in NestSections(t) : payload(p) /\ Idle
  \/ \E p \in NestPayloads :
    /\ p.tag = "Version" => Len(components) < MaxDepth
    /\ p.tag = "ModuleSection" /\ components # <<>> =>
         Top(components).modules \notin MaxChildren..(MAX_WASM_MODULES - 1)
    /\ p.tag = "ComponentSection" /\ components # <<>> =>
         Top(components).components \notin MaxChildren..(MAX_WASM_COMPONENTS - 1)
    /\ payload(p) /\ Idle

SpecNest == InitNest /\ [][NextNest]_vars

\* --------------------------------------------------------- SpecValueType
\* WasmFeatures::check_value_type on every value type under every setting of
\* the flags of WasmFeatures.
WasmFeatureNames ==
  {"mutable_global", "saturating_float_to_int", "sign_extension",
   "reference_types", "multi_value", "bulk_memory", "simd", "relaxed_simd",
   "threads", "tail_call", "deterministic_only", "multi_memory", "exceptions",
   "memory64", "extended_const", "component_model"}

\* the variants of Type that are value types
ValueTypes == {"I32", "I64", "F32", "F64", "V128", "FuncRef", "ExternRef"}

\* the vector type held to the flag of the reference types
check_value_type_one_flag(f, ty) ==
  CASE ty \in {"I32", "I64", "F32", "F64"} -> OK
    [] ty \in {"FuncRef", "ExternRef", "V128"} ->
         IF f.reference_types THEN OK
         ELSE "reference types support is not enabled"

check_value_type(f, ty) ==
  CASE ty \in {"I32", "I64", "F32", "F64"} -> OK
    [] ty \in {"FuncRef", "ExternRef"} ->
         IF f.reference_types THEN OK
         ELSE "reference types support is not enabled"
    [] ty = "V128" ->
         IF f.simd THEN OK
         ELSE "SIMD support is not enabled"

InitValueType ==
  /\ data_reader = NoReader
  /\ driver = NoDriver
  /\ state = StateDefault.state
  /\ expected = StateDefault.expected
  /\ module = None
  /\ components = <<>>
  /\ features \in [WasmFeatureNames -> BOOLEAN]
  /\ item \in {[call |-> "check_value_type", ty |-> ty] : ty \in ValueTypes}
  /\ result = NoResult
  /\ panicked = FALSE
  /\ types = 0

CheckValueType ==
  /\ result = NoResult
  /\ LET e == check_value_type(features, item.ty) IN
       result' = IF e = OK THEN Ret("check_value_type", "Ok")
                 ELSE Err("check_value_type", e, 0)
  /\ UNCHANGED <<state, expected, module, components, features, types, panicked,
                 data_reader, item, driver>>

SpecValueType == InitValueType /\ [][CheckValueType]_vars

\* ----------------------------------- ElementSection (wasm-encoder elements.rs)
\* encoders::u32: unsigned LEB128, seven bits a byte, low bits first
RECURSIVE encoders_u32(_)
encoders_u32(n) ==
  IF n < 128 THEN <<n>> ELSE <<128 + (n % 128)>> \o encoders_u32(n \div 128)

\* a | b on bytes
RECURSIVE BitOr(_, _)
BitOr(a, b) ==
  IF a = 0 THEN b
  ELSE IF b = 0 THEN a
  ELSE (IF a % 2 = 1 \/ b % 2 = 1 THEN 1 ELSE 0) + 2 * BitOr(a \div 2, b \div 2)

\* `ValType as u8`
ValTypeByte == [FuncRef |-> 112, ExternRef |-> 111]

\* Instruction::encode for the instructions a segment is made of; the
\* operand of i32.const stays below 64 and is one byte of signed LEB128.
encode(instr) ==
  CASE instr.op = "I32Const" -> <<65, instr.value>>
    [] instr.op = "RefFunc" -> <<210>> \o encoders_u32(instr.f)
    [] instr.op = "RefNull" -> <<208, ValTypeByte[instr.ty]>>
    [] instr.op = "End" -> <<11>>
    [] instr.op = "I64Const" -> <<66, instr.value>>
    [] instr.op = "GlobalGet" -> <<35>> \o encoders_u32(instr.global_index)

\* the modes numbered in the order of the enum ElementMode
mode_flag_enum_order(mode) ==
  CASE mode.kind = "Passive" -> 0
    [] mode.kind = "Declared" -> 1
    [] mode.kind = "Active" /\ ~mode.table.some -> 2
    [] mode.kind = "Active" /\ mode.table.some -> 3

\* the constant each arm of `match &segment.mode` ors with expr_bit
mode_flag(mode) ==
  CASE mode.kind = "Active" /\ ~mode.table.some -> 0
    [] mode.kind = "Passive" -> 1
    [] mode.kind = "Active" /\ mode.table.some -> 2
    [] mode.kind = "Declared" -> 3

\* `for x in items { ... }`: the encodings of the items, one after another
EncodeAll(items, one(_)) ==
  LET upto[k \in 0..Len(items)] ==
        IF k = 0 THEN <<>> ELSE upto[k - 1] \o one(items[k])
  IN upto[Len(items)]

\* ElementSection::segment
segment(self, seg) ==
  LET expr_bit == IF seg.elements.kind = "Expressions" THEN 4 ELSE 0
      elemkind == IF expr_bit = 0 THEN <<0>> ELSE <<ValTypeByte[seg.element_type]>>
      offset == IF seg.mode.kind = "Active"
                THEN encode(seg.mode.offset) \o encode([op |-> "End"])
                ELSE <<>>
      head == encoders_u32(BitOr(mode_flag(seg.mode), expr_bit)) \o
              CASE seg.mode.kind = "Active" /\ ~seg.mode.table.some -> offset
                [] seg.mode.kind = "Active" /\ seg.mode.table.some ->
                     encoders_u32(seg.mode.table.val) \o offset \o elemkind
                [] OTHER -> elemkind
      Expr(e) == (IF e.kind = "Func" THEN encode([op |-> "RefFunc", f |-> e.f])
                  ELSE encode([op |-> "RefNull", ty |-> seg.element_type]))
                 \o encode([op |-> "End"])
      body == IF seg.elements.kind = "Functions"
              THEN encoders_u32(Len(seg.elements.fs)) \o
                   EncodeAll(seg.elements.fs, encoders_u32)
              ELSE encoders_u32(Len(seg.elements.e)) \o
                   EncodeAll(seg.elements.e, Expr)
  IN [bytes |-> self.bytes \o head \o body, num_added |-> self.num_added + 1]

\* The element segment of the binary format, read back from the bytes with
\* `pos` bytes already consumed: flags 0 and 4 carry neither table nor type
\* (table 0, funcref), flags 1, 2, 3 carry an elemkind byte (0x00, funcref)
\* and function indices, flags 5, 6, 7 carry a reftype byte and expressions.
RECURSIVE decode_u32(_, _)
decode_u32(bytes, pos) ==
  LET byte == bytes[pos + 1] IN
  IF byte < 128 THEN [val |-> byte, pos |-> pos + 1]
  ELSE LET rest == decode_u32(bytes, pos + 1)
       IN [val |-> (byte % 128) + 128 * rest.val, pos |-> rest.pos]

decode_reftype(byte) == IF byte = 111 THEN "ExternRef" ELSE "FuncRef"

\* an instruction and the `end` that follows it
decode_expr(bytes, pos) ==
  CASE bytes[pos + 1] = 65 ->
         [val |-> [op |-> "I32Const", value |-> bytes[pos + 2]], pos |-> pos + 3]
    [] bytes[pos + 1] = 210 ->
         LET f == decode_u32(bytes, pos + 1)
         IN [val |-> [op |-> "RefFunc", f |-> f.val], pos |-> f.pos + 1]
    [] bytes[pos + 1] = 208 ->
         [val |-> [op |-> "RefNull", ty |-> decode_reftype(bytes[pos + 2])],
          pos |-> pos + 3]
    [] bytes[pos + 1] = 66 ->
         [val |-> [op |-> "I64Const", value |-> bytes[pos + 2]], pos |-> pos + 3]
    [] bytes[pos + 1] = 35 ->
         LET g == decode_u32(bytes, pos + 1)
         IN [val |-> [op |-> "GlobalGet", global_index |-> g.val], pos |-> g.pos + 1]

decode_element(bytes, pos) ==
  LET x == decode_expr(bytes, pos)
  IN [val |-> IF x.val.op = "RefFunc" THEN [kind |-> "Func", f |-> x.val.f]
              ELSE [kind |-> "Null"],
      pos |-> x.pos]

\* a vector: its length, then its items
decode_vec(bytes, pos, one(_, _)) ==
  LET n == decode_u32(bytes, pos)
      upto[k \in 0..n.val] ==
        IF k = 0 THEN [val |-> <<>>, pos |-> n.pos]
        ELSE LET x == one(bytes, upto[k - 1].pos)
             IN [val |-> Append(upto[k - 1].val, x.val), pos |-> x.pos]
  IN upto[n.val]

decode_segment(bytes, pos) ==
  LET flags == decode_u32(bytes, pos)
      exprs == (flags.val \div 4) % 2 = 1
      active == flags.val % 2 = 0
      table == IF active /\ (flags.val \div 2) % 2 = 1
               THEN LET t == decode_u32(bytes, flags.pos)
                    IN [val |-> Some(t.val), pos |-> t.pos]
               ELSE [val |-> None, pos |-> flags.pos]
      offset == IF active THEN decode_expr(bytes, table.pos)
                ELSE [val |-> [op |-> "End"], pos |-> table.pos]
      typed == flags.val % 4 # 0
      ty == IF ~typed THEN "FuncRef"
            ELSE IF exprs THEN decode_reftype(bytes[offset.pos + 1])
            ELSE "FuncRef"
      at == IF typed THEN offset.pos + 1 ELSE offset.pos
      items == IF exprs THEN decode_vec(bytes, at, decode_element)
               ELSE decode_vec(bytes, at, decode_u32)
  IN [segment |->
        [mode |-> CASE active -> [kind |-> "Active", table |-> table.val,
                                  offset |-> offset.val]
                    [] ~active /\ (flags.val \div 2) % 2 = 0 -> [kind |-> "Passive"]
                    [] OTHER -> [kind |-> "Declared"],
         element_type |-> ty,
         elements |-> IF exprs THEN [kind |-> "Expressions", e |-> items.val]
                      ELSE [kind |-> "Functions", fs |-> items.val]],
      pos |-> items.pos]

\* ----------------------------------------------------------- SpecElements
\* A caller that adds segments of every mode and both kinds of items to an
\* element section, with indices of one and of two LEB128 bytes.
Indices == {0, 200}
ElementModes ==
  {[kind |-> "Passive"], [kind |-> "Declared"]}
  \cup {[kind |-> "Active", table |-> t, offset |-> [op |-> "I32Const", value |-> v]] :
          t \in {None} \cup {Some(i) : i \in Indices}, v \in {0, 1}}
ElementItems ==
  {[kind |-> "Functions", fs |-> fs] : fs \in {<<>>} \cup {<<i>> : i \in Indices}}
  \cup {[kind |-> "Expressions", e |-> e] :
          e \in {<<>>, <<[kind |-> "Null"]>>} \cup {<<[kind |-> "Func", f |-> i]>> : i \in Indices}}
ElementSegments ==
  {[mode |-> m, element_type |-> ty, elements |-> el] :
     m \in ElementModes, ty \in DOMAIN ValTypeByte, el \in ElementItems}

InitElements ==
  /\ data_reader = NoReader
  /\ item = NoItem
  /\ driver = [pc |-> "encoding", section |-> [bytes |-> <<>>, num_added |-> 0]]
  /\ state = StateDefault.state
  /\ expected = StateDefault.expected
  /\ module = None
  /\ components = <<>>
  /\ features = WasmFeaturesDefault
  /\ result = NoResult
  /\ panicked = FALSE
  /\ types = 0

NextElements ==
  \E seg \in ElementSegments :
    /\ driver.section.num_added < MaxSegments
    /\ driver' = [driver EXCEPT !.section = segment(@, seg)]
    /\ item' = [call |-> "segment", segment |-> seg]
    /\ UNCHANGED <<state, expected, module, components, features, types, result,
                   panicked, data_reader>>

SpecElements == InitElements /\ [][NextElements]_vars

\* ------------------------------- AddTypeMutator (wasm-mutate add_type.rs)
\* A raw section is [id, data], the type section [id, types] with its
\* decoded entries; a ModuleInfo is [raw_sections, types], `types` the index
\* of the type section among the raw sections. An index counts from 0, as
\* in `raw_sections[section]`.
TypeSectionId == 1

\* ModuleInfo::get_type_section
get_type_section(info) ==
  IF info.types.some THEN Some(info.raw_sections[info.types.val + 1]) ELSE None

\* ModuleInfo::replace_section: the module with raw section i replaced
replace_section(info, i, new_section) ==
  [j \in 1..Len(info.raw_sections) |->
     IF j = i + 1 THEN new_section ELSE info.raw_sections[j]]

\* ModuleInfo::insert_section: the module with a section put before raw
\* section i, or last when i is the number of sections
insert_section(info, i, new_section) ==
  SubSeq(info.raw_sections, 1, i) \o <<new_section>> \o
  SubSeq(info.raw_sections, i + 1, Len(info.raw_sections))

\* translate_type: the ValType of the encoder for a Type of the parser
translate_type ==
  [I32 |-> "I32", I64 |-> "I64", F32 |-> "F32", F64 |-> "F64", V128 |-> "V128",
   FuncRef |-> "FuncRef", ExternRef |-> "ExternRef"]

\* `types.function(params, results)` for each entry the reader yields
copy_types(old_types) ==
  [k \in 1..Len(old_types) |->
     FuncType([n \in 1..Len(old_types[k].params) |-> translate_type[old_types[k].params[n]]],
              [n \in 1..Len(old_types[k].returns) |-> translate_type[old_types[k].returns[n]]])]

\* Mutator::can_mutate for AddTypeMutator
can_mutate(config) == ~config.reduce

\* mutate with the new section always put in the place of raw section 0
mutate_replace_always(info, params, results) ==
  LET old == get_type_section(info) IN
  IF old.some
  THEN replace_section(info, 0,
         [id |-> TypeSectionId,
          types |-> Append(copy_types(old.val.types), FuncType(params, results))])
  ELSE replace_section(info, 0,
         [id |-> TypeSectionId, types |-> <<FuncType(params, results)>>])

\* AddTypeMutator::mutate, params and results being what the rng drew
mutate(info, params, results) ==
  LET old == get_type_section(info) IN
  IF old.some
  THEN replace_section(info, 0,
         [id |-> TypeSectionId,
          types |-> Append(copy_types(old.val.types), FuncType(params, results))])
  ELSE insert_section(info, 0,
         [id |-> TypeSectionId, types |-> <<FuncType(params, results)>>])

\* ------------------------------------------------------------- SpecMutate
\* AddTypeMutator asked whether it applies and then run, on modules of up to
\* MaxRaw raw sections: custom sections anywhere, at most one type section
\* of up to two types, at most one function section after it.
RawCustom == [id |-> 0, data |-> <<7>>]
RawFunction == [id |-> 3, data |-> <<1, 0>>]
OldTypes == {FuncType(<<"I32">>, <<"I64">>), FuncType(<<>>, <<"FuncRef">>)}
RawTypes ==
  {[id |-> TypeSectionId, types |-> ts] :
     ts \in {<<>>} \cup {<<a>> : a \in OldTypes} \cup {<<a, b>> : a \in OldTypes, b \in OldTypes}}
RawKinds == {"c", "t", "f"}
Shapes ==
  {sh \in UNION {[1..n -> RawKinds] : n \in 0..MaxRaw} :
     /\ Cardinality({j \in DOMAIN sh : sh[j] = "t"}) <= 1
     /\ Cardinality({j \in DOMAIN sh : sh[j] = "f"}) <= 1
     /\ \A j, k \in DOMAIN sh : sh[j] = "t" /\ sh[k] = "f" => j < k}
ModuleInfos ==
  {[raw_sections |-> [j \in DOMAIN sh |->
                       CASE sh[j] = "c" -> RawCustom
                         [] sh[j] = "f" -> RawFunction
                         [] sh[j] = "t" -> t],
    types |-> IF \E j \in DOMAIN sh : sh[j] = "t"
              THEN Some((CHOOSE j \in DOMAIN sh : sh[j] = "t") - 1)
              ELSE None] :
     sh \in Shapes, t \in RawTypes}
ValTypeSeqs(max) == UNION {[1..n -> DOMAIN translate_type] : n \in 0..max}

InitMutate ==
  /\ data_reader = NoReader
  /\ item = NoItem
  /\ \E info \in ModuleInfos, reduce \in BOOLEAN,
        max_params \in 0..MaxParams, max_results \in 0..MaxParams :
       driver = [pc |-> "new", info |-> info, config |-> [reduce |-> reduce],
                 max_params |-> max_params, max_results |-> max_results,
                 applicable |-> FALSE]
  /\ state = StateDefault.state
  /\ expected = StateDefault.expected
  /\ module = None
  /\ components = <<>>
  /\ features = WasmFeaturesDefault
  /\ result = NoResult
  /\ panicked = FALSE
  /\ types = 0

NextMutate ==
  \/ /\ driver.pc = "new"
     /\ driver' = [driver EXCEPT !.pc = "asked", !.applicable = can_mutate(driver.config)]
     /\ UNCHANGED <<state, expected, module, components, features, types, result,
                    panicked, data_reader, item>>
  \/ /\ driver.pc = "asked" /\ driver.applicable
     /\ \E params \in ValTypeSeqs(driver.max_params),
           results \in ValTypeSeqs(driver.max_results) :
          item' = [call |-> "mutate", params |-> params, results |-> results,
                   module |-> mutate(driver.info, params, results)]
     /\ driver' = [driver EXCEPT !.pc = "mutated"]
     /\ UNCHANGED <<state, expected, module, components, features, types, result,
                    panicked, data_reader>>

SpecMutate == InitMutate /\ [][NextMutate]_vars

\* ------------------------------------------------------ Types (types.rs)
\* The counts a Types answers with; those of a module name no module,
\* component, instance or value.
TypesCounts(t) ==
  [type_count |-> Len(t.module.types), memory_count |-> t.module.memories,
   table_count |-> Len(t.module.tables), global_count |-> t.module.globals,
   function_count |-> Len(t.module.functions), tag_count |-> Len(t.module.tags),
   element_count |-> Len(t.module.element_types),
   module_count |-> 0, component_count |-> 0, instance_count |-> 0, value_count |-> 0]

\* `list.get(index as usize)`, made an Option
At(list, index) == IF index < Len(list) THEN Some(list[index + 1]) ELSE None

func_type_at(t, index) == At(t.module.types, index)
function_at(t, index) == At(t.module.functions, index)
tag_at(t, index) == At(t.module.tags, index)
element_at(t, index) == At(t.module.element_types, index)

\* The adders of the items the other specifications do not keep. The items
\* of a Type section are here a list, one type an entry.
add_types(m, s) ==
  [err |-> OK, m |-> [m EXCEPT !.types = @ \o SubSeq(s.item, 1, s.good)],
   types |-> types + s.good]

add_table(m, s) ==
  [err |-> OK, m |-> [m EXCEPT !.tables = @ \o [i \in 1..s.good |-> s.item]],
   types |-> types]

add_global(m, s) ==
  [err |-> OK, m |-> [m EXCEPT !.globals = @ + s.good], types |-> types]

\* add_tag: the item is the index of a type of the module, which returns
\* nothing
add_tag(m, s) ==
  IF s.good = 0 THEN [err |-> OK, m |-> m, types |-> types]
  ELSE IF s.item >= Len(m.types)
  THEN [err |-> "unknown type " \o ToString(s.item) \o ": type index out of bounds",
        m |-> m, types |-> types]
  ELSE IF m.types[s.item + 1].returns # <<>>
  THEN [err |-> "invalid exception type: non-empty tag result type",
        m |-> m, types |-> types]
  ELSE [err |-> OK,
        m |-> [m EXCEPT !.tags = @ \o [i \in 1..s.good |-> m.types[s.item + 1]]],
        types |-> types]

add_element_segment(m, s) ==
  [err |-> OK, m |-> [m EXCEPT !.element_types = @ \o [i \in 1..s.good |-> s.item]],
   types |-> types]

\* -------------------------------------------------------------- SpecTypes
\* One module fed to a Validator with exceptions and multi-memory enabled,
\* its Type section of up to MaxEntries entries and the others of up to
\* MaxCount, the caller stopping at the first error and keeping in `fed` the
\* entries of the sections that were accepted.
Entries == Small
WithItem(S, I) ==
  {[count |-> s.count, good |-> s.good, trailing |-> s.trailing,
    start |-> s.start, at |-> s.at, item |-> i] : s \in S, i \in I}
TypeEntries ==
  {[count |-> s.count, good |-> s.good, trailing |-> s.trailing,
    start |-> s.start, at |-> s.at, item |-> i] :
     s \in Sections(0..MaxEntries, Offsets),
     i \in UNION {[1..n -> FuncTypes] : n \in 0..MaxEntries}}
RefTypes == {"FuncRef", "ExternRef"}
Repeated(n, x) == [i \in 1..n |-> x]

InitTypes ==
  /\ data_reader = NoReader
  /\ item = NoItem
  /\ driver = [pc |-> "feeding",
               fed |-> [types |-> <<>>, functions |-> <<>>, tables |-> <<>>,
                        memories |-> 0, globals |-> 0, tags |-> <<>>,
                        elements |-> <<>>]]
  /\ state = StateDefault.state
  /\ expected = StateDefault.expected
  /\ module = None
  /\ components = <<>>
  /\ features = [WasmFeaturesDefault EXCEPT !.exceptions = TRUE, !.multi_memory = TRUE]
  /\ result = NoResult
  /\ panicked = FALSE
  /\ types = 0

Fed(fed) ==
  /\ driver' = IF result'.ok THEN [driver EXCEPT !.fed = fed] ELSE driver
  /\ UNCHANGED <<data_reader, item>>

NextTypes ==
  \/ Going /\ version(WASM_MODULE_VERSION, "Module", 0) /\ Idle
  \/ \E s \in TypeEntries :
       /\ Going /\ Len(s.item) = s.count
       /\ ensure_module_section("type_section", Order.Type, s, "type",
                                type_validate_section, add_types)
       /\ Fed([driver.fed EXCEPT !.types = s.item])
  \/ \E s \in Entries :
       /\ Going /\ import_section(s)
       /\ Fed([driver.fed EXCEPT !.memories = @ + s.count])
  \/ \E s \in WithItem(Entries, 0..(MaxEntries - 1)) :
       /\ Going /\ function_section(s)
       /\ Fed([driver.fed EXCEPT !.functions = Repeated(s.count, s.item)])
  \/ \E s \in WithItem(Entries, RefTypes) :
       /\ Going
       /\ ensure_module_section("table_section", Order.Table, s, "table",
                                table_validate_section, add_table)
       /\ Fed([driver.fed EXCEPT !.tables = Repeated(s.count, s.item)])
  \/ \E s \in Entries :
       /\ Going /\ memory_section(s)
       /\ Fed([driver.fed EXCEPT !.memories = @ + s.count])
  \/ \E s \in WithItem(Entries, 0..(MaxEntries - 1)) :
       /\ Going /\ features.exceptions
       /\ ensure_module_section("tag_section", Order.Tag, s, "tag",
                                tag_validate_section, add_tag)
       /\ Fed([driver.fed EXCEPT !.tags = Repeated(s.count, s.item)])
  \/ \E s \in Entries :
       /\ Going
       /\ ensure_module_section("global_section", Order.Global, s, "global",
                                global_validate_section, add_global)
       /\ Fed([driver.fed EXCEPT !.globals = s.count])
  \/ \E s \in WithItem(Entries, RefTypes) :
       /\ Going
       /\ ensure_module_section("element_section", Order.Element, s, "element",
                                element_validate_section, add_element_segment)
       /\ Fed([driver.fed EXCEPT !.elements = Repeated(s.count, s.item)])
  \/ \E count \in SmallCounts : Going /\ code_section_start(count, 0) /\ Idle
  \/ Going /\ code_section_entry(0) /\ Idle
  \/ Going /\ end(TRUE, 0) /\ Idle

SpecTypes == InitTypes /\ [][NextTypes]_vars

\* ----------------------------------------------------------- SpecDataLen
\* The end of DataSectionReader::read, from the point where the length of
\* the data has been decoded, with the integers at their width. The widths
\* are scaled: a u32 has UsizeBits bits, a usize has as many on a 32-bit
\* target and twice as many on a 64-bit target, and a buffer holds at most
\* isize::MAX bytes. `+` on usize panics on overflow when the build has
\* overflow checks and wraps when it has none.
Builds == [bits : {UsizeBits, 2 * UsizeBits}, overflow_checks : BOOLEAN]

PanicValue(b) == [ok |-> FALSE, msg |-> "panic", offset |-> 0, reader |-> b]

\* `self.reader.position + data_len` in usize
usize_add(build, a, b) ==
  IF a + b < 2 ^ build.bits THEN [panic |-> FALSE, val |-> a + b]
  ELSE IF build.overflow_checks THEN [panic |-> TRUE, val |-> 0]
  ELSE [panic |-> FALSE, val |-> (a + b) % (2 ^ build.bits)]

\* data.rs 141-150, self.reader standing after the length. The slice
\* `&buffer[position..data_end]` panics when position > data_end or when
\* data_end is past the end of the buffer.
read_data(self, build, segment_start, kind, data_len) ==
  LET b == self.reader
      data_end == usize_add(build, b.position, data_len)
  IN IF data_end.panic THEN PanicValue(b)
     ELSE Try(verify_data_end(self, data_end.val), LAMBDA verified :
            IF b.position > data_end.val \/ data_end.val > Len(b.buffer)
            THEN PanicValue(b)
            ELSE ReadOk(Data(kind,
                             SubSeq(b.buffer, b.position + 1, data_end.val),
                             Range(segment_start,
                                   original_position(skip_to(b, data_end.val)))),
                        skip_to(b, data_end.val)))

\* A passive segment: one byte of flags, then the length in one to five bytes.
InitDataLen ==
  /\ state = "Module"
  /\ expected = None
  /\ module = Some(ModuleStateDefault)
  /\ components = <<>>
  /\ result = NoResult
  /\ panicked = FALSE
  /\ types = 0
  /\ features = WasmFeaturesDefault
  /\ item = NoItem
  /\ \E len \in 2..(2 ^ (UsizeBits - 1) - 1), offset \in SectionOffsets :
       \E position \in 2..len, build \in Builds, data_len \in 0..(2 ^ UsizeBits - 1) :
         \E segment_start \in {p \in 0..(position - 2) : position - p <= 6} :
           /\ data_reader = [reader |-> [buffer |-> [i \in 1..len |-> 0],
                                         position |-> position,
                                         original_offset |-> offset],
                             count |-> 1, forbid_bulk_memory |-> FALSE]
           /\ driver = [pc |-> "data_len", build |-> build, data_len |-> data_len,
                        segment_start |-> offset + segment_start,
                        before |-> data_reader.reader]

ReadData ==
  /\ driver.pc = "data_len"
  /\ LET r == Returned(data_reader,
                       read_data(data_reader, driver.build, driver.segment_start,
                                 Passive, driver.data_len))
     IN /\ data_reader' = r.self
        /\ item' = r.ret
  /\ driver' = [driver EXCEPT !.pc = "done"]
  /\ UNCHANGED <<state, expected, module, components, features, types, result, panicked>>

NextDataLen == ReadData

SpecDataLen == InitDataLen /\ [][NextDataLen]_vars

\* ------------- InitExpressionMutator (wasm-mutate modify_init_exprs.rs)
\* A u32 is scaled to UsizeBits bits. `a.overflowing_sub(b)`: the difference
\* modulo 2^bits, and whether it went below zero.
U32 == 0..(2 ^ UsizeBits - 1)
overflowing_sub(a, b) ==
  [val |-> (a - b + 2 ^ UsizeBits) % (2 ^ UsizeBits), overflow |-> a < b]

\* a counter that stops at zero instead of wrapping
should_process_saturating(self) ==
  [self |-> [self EXCEPT !.skip_inits = IF @ = 0 THEN 0 ELSE @ - 1],
   ret |-> self.skip_inits = 0]

\* InitTranslator::should_process, the translator left and the value returned
should_process(self) ==
  LET sub == overflowing_sub(self.skip_inits, 1)
  IN [self |-> [self EXCEPT !.skip_inits = sub.val], ret |-> sub.overflow]

\* What translate_init_expr returns: Ok(instruction), the error
\* Error::no_mutations_applicable(), or a panic that unwinds.
InstrOk(instr) == [ok |-> TRUE, instr |-> instr]
NoMutationsApplicable == [ok |-> FALSE, msg |-> "no mutations applicable"]
InstrPanic == [ok |-> FALSE, msg |-> "panic"]

\* translate::init_expr: the operator of the expression as an instruction
init_expr(e) == InstrOk(e)

\* `rng.gen_range(low..high)` on the draw `raw`: rand panics on an empty range
gen_range(low, high, raw) ==
  IF low >= high THEN [panic |-> TRUE, val |-> 0]
  ELSE [panic |-> FALSE, val |-> low + (raw % (high - low))]

\* `O::RefNull { .. } | O::I32Const { value: 0 | 1 } | O::I64Const { value: 0 | 1 }`
is_simplest(op) ==
  \/ op.op = "RefNull"
  \/ op.op \in {"I32Const", "I64Const"} /\ op.value \in {0, 1}

\* the `match ty` of reduce mode for an integer type whose constant is `const`
reduce_int(const, should_zero, op, rng) ==
  IF should_zero THEN InstrOk([op |-> const, value |-> 0])
  ELSE IF op.op = const
  THEN LET r == gen_range(0, op.value, rng.raw)
       IN IF r.panic THEN InstrPanic ELSE InstrOk([op |-> const, value |-> r.val])
  ELSE InstrOk([op |-> const, value |-> rng.raw])

\* the draw alone decides, for an element offset as for a global
should_zero_by_chance(kind, rng) == rng.u8 % 4 = 0

\* `is_element_offset || self.config.rng().gen::<u8>() & 0b11 == 0`
should_zero(kind, rng) == kind = "ElementOffset" \/ rng.u8 % 4 = 0

\* InitTranslator::translate_init_expr: the translator left and what is
\* returned; rng holds the byte and the number the generator yields.
translate_init_expr(self, config, e, ty, kind, rng) ==
  IF kind # self.kind THEN [self |-> self, ret |-> init_expr(e)]
  ELSE
    LET sp == should_process(self) IN
    IF ~sp.ret THEN [self |-> sp.self, ret |-> init_expr(e)]
    ELSE
      [self |-> sp.self,
       ret |->
         IF config.reduce /\ is_simplest(e) THEN NoMutationsApplicable
         ELSE IF ~config.reduce THEN NoMutationsApplicable
         ELSE
           CASE ty = "I32" -> reduce_int("I32Const", should_zero(kind, rng), e, rng)
             [] ty = "I64" -> reduce_int("I64Const", should_zero(kind, rng), e, rng)
             [] ty = "FuncRef" -> InstrOk([op |-> "RefNull", ty |-> "FuncRef"])
             [] ty = "ExternRef" -> InstrOk([op |-> "RefNull", ty |-> "ExternRef"])]

\* InitTranslator::remap
remap(self, item_, idx) ==
  IF self.kind = "ElementFunction" /\ item_ = "Function"
  THEN LET sp == should_process(self)
       IN [self |-> sp.self, val |-> IF sp.ret THEN 0 ELSE idx]
  ELSE [self |-> self, val |-> idx]

\* The global and element sections as the encoder writes them and the
\* parser reads them. A section being built is [bytes, num_added]; its data
\* in the module is the count followed by the bytes.
GlobalTypeByte == [I32 |-> 127, I64 |-> 126, FuncRef |-> 112, ExternRef |-> 111]
decode_type(byte) == CHOOSE ty \in DOMAIN GlobalTypeByte : GlobalTypeByte[ty] = byte
SectionId == [Global |-> 6, Element |-> 9]
NewSection == [bytes |-> <<>>, num_added |-> 0]
section_data(s) == encoders_u32(s.num_added) \o s.bytes

\* GlobalSection::global
global(self, ty, init_expr_) ==
  [bytes |-> self.bytes \o
             <<GlobalTypeByte[ty.content_type], IF ty.mutable THEN 1 ELSE 0>> \o
             encode(init_expr_) \o encode([op |-> "End"]),
   num_added |-> self.num_added + 1]

\* GlobalSection::raw and ElementSection::raw: an entry copied as bytes
raw(self, data) ==
  [bytes |-> self.bytes \o data, num_added |-> self.num_added + 1]

\* GlobalSectionReader::read with `pos` bytes consumed
read_global(data, pos) ==
  LET e == decode_expr(data, pos + 2)
  IN [val |-> [ty |-> [content_type |-> decode_type(data[pos + 1]),
                       mutable |-> data[pos + 2] = 1],
               init_expr |-> e.val],
      pos |-> e.pos]

\* What a step of a mutation gives: the translator, and the section so far
\* or the error.
StepOk(t, pos, s) == [ok |-> TRUE, self |-> t, pos |-> pos, section |-> s]
StepErr(t, r) == [ok |-> FALSE, self |-> t, msg |-> r.msg]

\* translate::global (Translator::translate_global)
translate_global(t, config, g, s, rng) ==
  LET Written(r) == IF r.ret.ok THEN StepOk(r.self, 0, global(s, g.ty, r.ret.instr))
                    ELSE StepErr(r.self, r.ret)
  IN Written(translate_init_expr(t, config, g.init_expr, g.ty.content_type,
                                 "Global", rng))

\* the items of translate::element, one after another: a function index
\* goes through remap, an expression through translate_init_expr
translate_items(t, config, element, rng) ==
  LET items == IF element.elements.kind = "Functions" THEN element.elements.fs
               ELSE element.elements.e
      AsOp(x) == IF x.kind = "Func" THEN [op |-> "RefFunc", f |-> x.f]
                 ELSE [op |-> "RefNull", ty |-> element.element_type]
      AsElement(i) == IF i.op = "RefFunc" THEN [kind |-> "Func", f |-> i.f]
                      ELSE [kind |-> "Null"]
      Remapped(prev, r) ==
        [ok |-> TRUE, self |-> r.self, val |-> Append(prev.val, r.val)]
      Translated(prev, r) ==
        IF r.ret.ok
        THEN [ok |-> TRUE, self |-> r.self,
              val |-> Append(prev.val, AsElement(r.ret.instr))]
        ELSE [ok |-> FALSE, self |-> r.self, msg |-> r.ret.msg]
      upto[k \in 0..Len(items)] ==
        IF k = 0 THEN [ok |-> TRUE, self |-> t, val |-> <<>>]
        ELSE LET prev == upto[k - 1] IN
             IF ~prev.ok THEN prev
             ELSE IF element.elements.kind = "Functions"
             THEN Remapped(prev, remap(prev.self, "Function", items[k]))
             ELSE Translated(prev,
                             translate_init_expr(prev.self, config, AsOp(items[k]),
                                                 element.element_type,
                                                 "ElementFunction", rng))
  IN upto[Len(items)]

\* translate::element (Translator::translate_element)
translate_element(t, config, element, s, rng) ==
  LET Written(offset, items) ==
        IF ~items.ok THEN StepErr(items.self, items)
        ELSE StepOk(items.self, 0,
               segment(s,
                 [mode |-> IF element.mode.kind = "Active"
                           THEN [element.mode EXCEPT !.offset = offset.ret.instr]
                           ELSE element.mode,
                  element_type |-> element.element_type,
                  elements |-> IF element.elements.kind = "Functions"
                               THEN [kind |-> "Functions", fs |-> items.val]
                               ELSE [kind |-> "Expressions", e |-> items.val]]))
      WithOffset(offset) ==
        IF ~offset.ret.ok THEN StepErr(offset.self, offset.ret)
        ELSE Written(offset, translate_items(offset.self, config, element, rng))
  IN WithOffset(IF element.mode.kind = "Active"
                THEN translate_init_expr(t, config, element.mode.offset, "I32",
                                         "ElementOffset", rng)
                ELSE [self |-> t, ret |-> InstrOk([op |-> "End"])])

\* ModuleInfo::num_local_globals and ModuleInfo::num_elements
num_local_globals(info) ==
  IF info.globals.some
  THEN decode_u32(info.raw_sections[info.globals.val + 1].data, 0).val ELSE 0
num_elements(info) ==
  IF info.elements.some
  THEN decode_u32(info.raw_sections[info.elements.val + 1].data, 0).val ELSE 0

\* every entry taken for the chosen one
is_mutate_idx_always(idx, mutate_idx) == TRUE

\* `if idx == mutate_idx`
is_mutate_idx(idx, mutate_idx) == idx = mutate_idx

MutateOk(module_) == [ok |-> TRUE, module |-> module_]
MutatePanic == [ok |-> FALSE, msg |-> "panic"]

\* InitExpressionMutator::mutate; rng holds what the generator yields for
\* the index, the skip, the byte and the number.
InitExpressionMutator_mutate(self, config, info, rng) ==
  LET globals == self = "Global"
      num_total == IF globals THEN num_local_globals(info) ELSE num_elements(info)
      index == IF globals THEN info.globals ELSE info.elements
      Run(mutate_idx) ==
  IF mutate_idx.panic THEN MutatePanic
  ELSE IF ~index.some THEN NoMutationsApplicable
  ELSE
    LET section == index.val
        data == info.raw_sections[section + 1].data
        count == decode_u32(data, 0)
        translator == [skip_inits |-> 0,
                       kind |-> CASE self = "Global" -> "Global"
                                  [] self = "ElementOffset" -> "ElementOffset"
                                  [] self = "ElementFunc" -> "ElementFunction"]
        Chosen(t, entry, s) ==
          IF globals THEN translate_global(t, config, entry, s, rng)
          ELSE IF self = "ElementFunc"
          THEN LET item_count == Len(IF entry.elements.kind = "Functions"
                                     THEN entry.elements.fs ELSE entry.elements.e)
                   skip == gen_range(0, item_count, rng.skip)
               IN IF item_count > 0
                  THEN translate_element([t EXCEPT !.skip_inits = skip.val], config,
                                         entry, s, rng)
                  ELSE StepErr(t, NoMutationsApplicable)
          ELSE translate_element(t, config, entry, s, rng)
        Segment(x) == [val |-> x.segment, pos |-> x.pos]
        Kept(r, end_) == IF r.ok THEN StepOk(r.self, end_, r.section) ELSE r
        Entry(n, prev, entry) ==
          IF is_mutate_idx(n - 1, mutate_idx.val)
          THEN Kept(Chosen(prev.self, entry.val, prev.section), entry.pos)
          ELSE StepOk(prev.self, entry.pos,
                      raw(prev.section, SubSeq(data, prev.pos + 1, entry.pos)))
        loop[n \in 0..count.val] ==
          IF n = 0 THEN StepOk(translator, count.pos, NewSection)
          ELSE LET prev == loop[n - 1] IN
               IF ~prev.ok THEN prev
               ELSE Entry(n, prev,
                          IF globals THEN read_global(data, prev.pos)
                          ELSE Segment(decode_segment(data, prev.pos)))
        Replaced(new_section) ==
          IF ~new_section.ok THEN [ok |-> FALSE, msg |-> new_section.msg]
          ELSE MutateOk(replace_section(info, section,
                          [id |-> IF globals THEN SectionId.Global
                                  ELSE SectionId.Element,
                           data |-> section_data(new_section.section)]))
    IN Replaced(loop[count.val])
  IN Run(gen_range(0, num_total, rng.idx))

\* Mutator::can_mutate for InitExpressionMutator
InitExpressionMutator_can_mutate(self, config, info) ==
  IF ~config.reduce THEN FALSE
  ELSE LET any_data == IF self = "Global" THEN num_local_globals(info) > 0
                       ELSE num_elements(info) > 0
       IN ~config.preserve_semantics /\ any_data

\* -------------------------------------------------------------- SpecSkip
\* should_process called again and again on one translator, from every
\* skip_inits, a little past the number of calls at which the counter has
\* gone round.
InitSkip ==
  /\ data_reader = NoReader
  /\ item = NoItem
  /\ state = StateDefault.state
  /\ expected = StateDefault.expected
  /\ module = None
  /\ components = <<>>
  /\ features = WasmFeaturesDefault
  /\ result = NoResult
  /\ panicked = FALSE
  /\ types = 0
  /\ \E k \in U32 :
       driver = [pc |-> "skip", k |-> k, calls |-> 0, fired |-> 0,
                 translator |-> [skip_inits |-> k, kind |-> "ElementFunction"]]

ShouldProcess ==
  /\ driver.pc = "skip"
  /\ driver.calls <= 2 ^ UsizeBits
  /\ LET r == should_process(driver.translator)
     IN /\ driver' = [driver EXCEPT !.translator = r.self,
                                    !.calls = @ + 1,
                                    !.fired = IF r.ret THEN @ + 1 ELSE @]
        /\ item' = [call |-> "should_process", ret |-> r.ret]
  /\ UNCHANGED <<state, expected, module, components, features, types, result,
                 panicked, data_reader>>

NextSkip == ShouldProcess

SpecSkip == InitSkip /\ [][NextSkip]_vars

\* ---------------------------------------------------------- SpecInitExpr
\* translate_init_expr on every initializer of an integer or reference type,
\* with constants from -MaxConst to MaxConst, for every kind of the
\* translator and of the expression, in and out of reduce mode, and for every
\* draw of the generator.
Consts == (0 - MaxConst)..MaxConst
InitExprKinds == {"Global", "ElementOffset", "ElementFunction"}
Initializers ==
  {[ty |-> "I32", e |-> [op |-> "I32Const", value |-> v]] : v \in Consts}
  \cup {[ty |-> "I64", e |-> [op |-> "I64Const", value |-> v]] : v \in Consts}
  \cup {[ty |-> ty, e |-> [op |-> "GlobalGet", global_index |-> 0]] :
          ty \in {"I32", "I64", "FuncRef", "ExternRef"}}
  \cup {[ty |-> ty, e |-> [op |-> "RefNull", ty |-> ty]] : ty \in {"FuncRef", "ExternRef"}}
  \cup {[ty |-> "FuncRef", e |-> [op |-> "RefFunc", f |-> 0]]}
Rngs == [u8 : 0..4, raw : Consts]

InitInitExpr ==
  /\ data_reader = NoReader
  /\ item = NoItem
  /\ state = StateDefault.state
  /\ expected = StateDefault.expected
  /\ module = None
  /\ components = <<>>
  /\ features = WasmFeaturesDefault
  /\ result = NoResult
  /\ panicked = FALSE
  /\ types = 0
  /\ \E init \in Initializers, self_kind \in InitExprKinds, kind \in InitExprKinds :
       \E skip \in {0, 1}, reduce \in BOOLEAN :
         driver = [pc |-> "init_expr", init |-> init, kind |-> kind,
                   config |-> [reduce |-> reduce],
                   before |-> [skip_inits |-> skip, kind |-> self_kind],
                   translator |-> [skip_inits |-> skip, kind |-> self_kind]]

TranslateInitExpr ==
  /\ driver.pc = "init_expr"
  /\ \E rng \in Rngs :
       LET r == translate_init_expr(driver.translator, driver.config, driver.init.e,
                                    driver.init.ty, driver.kind, rng)
       IN /\ driver' = [driver EXCEPT !.pc = "done", !.translator = r.self]
          /\ item' = [call |-> "translate_init_expr", ret |-> r.ret]
  /\ UNCHANGED <<state, expected, module, components, features, types, result,
                 panicked, data_reader>>

NextInitExpr == TranslateInitExpr

SpecInitExpr == InitInitExpr /\ [][NextInitExpr]_vars

\* -------------------------------------------------------- SpecInitMutate
\* InitExpressionMutator asked whether it applies and, when it does, run,
\* on modules that hold a custom section, a global section and an element
\* section of up to MaxInits entries each. The entries are given as bytes;
\* some spell an index with a padded LEB128, which no encoder writes.
GlobalEntries ==
  {<<127, 0, 65, 0, 11>>, <<127, 1, 65, 2, 11>>, <<127, 0, 35, 128, 0, 11>>,
   <<126, 0, 66, 3, 11>>, <<112, 0, 210, 0, 11>>}
ElementEntries ==
  {<<0, 65, 0, 11, 1, 0>>, <<0, 65, 2, 11, 1, 0>>, <<0, 35, 0, 11, 1, 128, 0>>,
   <<1, 0, 1, 0>>, <<2, 1, 65, 3, 11, 0, 1, 200, 1>>,
   <<4, 65, 2, 11, 1, 210, 0, 11>>, <<5, 112, 1, 208, 112, 11>>}
RECURSIVE Concat(_)
Concat(pieces) == IF pieces = <<>> THEN <<>> ELSE Head(pieces) \o Concat(Tail(pieces))
EntryLists(S) == UNION {[1..n -> S] : n \in 0..MaxInits}
SectionOf(id, entries) == [id |-> id, data |-> encoders_u32(Len(entries)) \o Concat(entries)]
InitModules(self) ==
  {[raw_sections |-> <<RawCustom>> \o gs \o es,
    globals |-> IF gs = <<>> THEN None ELSE Some(1),
    elements |-> IF es = <<>> THEN None ELSE Some(1 + Len(gs))] :
     gs \in IF self = "Global"
            THEN {<<>>} \cup {<<SectionOf(SectionId.Global, g)>> : g \in EntryLists(GlobalEntries)}
            ELSE {<<>>, <<SectionOf(SectionId.Global, <<>>)>>},
     es \in IF self = "Global"
            THEN {<<>>, <<SectionOf(SectionId.Element, <<>>)>>}
            ELSE {<<>>} \cup {<<SectionOf(SectionId.Element, e)>> : e \in EntryLists(ElementEntries)}}
MutateRngs == [idx : 0..(MaxInits - 1), skip : {0}, u8 : {0, 1}, raw : {0, 1, MaxConst}]

InitInitMutate ==
  /\ data_reader = NoReader
  /\ item = NoItem
  /\ state = StateDefault.state
  /\ expected = StateDefault.expected
  /\ module = None
  /\ components = <<>>
  /\ features = WasmFeaturesDefault
  /\ result = NoResult
  /\ panicked = FALSE
  /\ types = 0
  /\ \E self \in {"Global", "ElementOffset", "ElementFunc"} :
       \E info \in InitModules(self), reduce \in BOOLEAN, preserve \in BOOLEAN :
         driver = [pc |-> "can_mutate", self |-> self, info |-> info,
                   config |-> [reduce |-> reduce, preserve_semantics |-> preserve],
                   rng |-> [idx |-> 0, skip |-> 0, u8 |-> 0, raw |-> 0]]

CanMutate ==
  /\ driver.pc = "can_mutate"
  /\ item' = [call |-> "can_mutate",
              ret |-> InitExpressionMutator_can_mutate(driver.self, driver.config,
                                                       driver.info)]
  /\ driver' = [driver EXCEPT !.pc = IF item'.ret THEN "mutate" ELSE "done"]
  /\ UNCHANGED <<state, expected, module, components, features, types, result,
                 panicked, data_reader>>

Mutate ==
  /\ driver.pc = "mutate"
  /\ \E rng \in MutateRngs :
       /\ item' = [call |-> "mutate",
                   ret |-> InitExpressionMutator_mutate(driver.self, driver.config,
                                                        driver.info, rng)]
       /\ driver' = [driver EXCEPT !.pc = "done", !.rng = rng]
  /\ UNCHANGED <<state, expected, module, components, features, types, result,
                 panicked, data_reader>>

NextInitMutate == CanMutate \/ Mutate

SpecInitMutate == InitInitMutate /\ [][NextInitMutate]_vars

\* --------------------------------------------------------------- SpecMax
\* check_max on every triple of arguments of UsizeBits bits.
Usize == 0..(2 ^ UsizeBits - 1)

InitMax ==
  /\ data_reader = NoReader
  /\ item = NoItem
  /\ state = StateDefault.state
  /\ expected = StateDefault.expected
  /\ module = None
  /\ components = <<>>
  /\ features = WasmFeaturesDefault
  /\ result = NoResult
  /\ panicked = FALSE
  /\ types = 0
  /\ \E cur_len \in Usize, amt_added \in Usize, max \in Usize,
        desc \in {"memories", "types"}, offset \in Offsets :
       driver = [pc |-> "check_max", cur_len |-> cur_len, amt_added |-> amt_added,
                 max |-> max, desc |-> desc, offset |-> offset]

CheckMax ==
  /\ driver.pc = "check_max"
  /\ LET e == check_max(driver.cur_len, driver.amt_added, driver.max, driver.desc) IN
       result' = IF e = OK THEN Ret("check_max", "Ok")
                 ELSE Err("check_max", e, driver.offset)
  /\ driver' = [driver EXCEPT !.pc = "checked"]
  /\ UNCHANGED <<state, expected, module, components, features, types, panicked, data_reader, item>>

SpecMax == InitMax /\ [][CheckMax]_vars

\* =================================================================== claims
SectionRank ==
  [type_section |-> Order.Type, import_section |-> Order.Import,
   function_section |-> Order.Function, table_section |-> Order.Table,
   memory_section |-> Order.Memory, tag_section |-> Order.Tag,
   global_section |-> Order.Global, export_section |-> Order.Export,
   start_section |-> Order.Start, element_section |-> Order.Element,
   data_count_section |-> Order.DataCount, code_section_start |-> Order.Code,
   data_section |-> Order.Data]
SectionCalls == DOMAIN SectionRank

OutOfOrder == "section out of order"
TagDisabled(call) == call = "tag_section" /\ ~features.exceptions

\* C2 (as stated): in a module whose earlier payloads were all accepted
\* (module.order is then the rank of the last accepted section), a section is
\* accepted only if its rank is strictly greater than that rank, a section of
\* the same or a lower rank fails with "section out of order", and a custom
\* section leaves the rank alone.
C2_AsStated ==
  [][ /\ (result'.call \in SectionCalls /\ state = "Module") =>
           /\ result'.ok =>
                /\ SectionRank[result'.call] > module.val.order
                /\ module'.val.order = SectionRank[result'.call]
           /\ SectionRank[result'.call] <= module.val.order =>
                ~result'.ok /\ result'.msg = OutOfOrder
      /\ (result'.call = "custom_section" /\ result'.ok) => module' = module
    ]_vars

\* C2 (amended): the same, except that a Tag section is refused with
\* "exceptions proposal not enabled", whatever its rank, when the exceptions
\* feature is off: tag_section tests the feature before the order.
C2_SectionOrder ==
  [][ /\ (result'.call \in SectionCalls /\ state = "Module") =>
           /\ result'.ok =>
                /\ SectionRank[result'.call] > module.val.order
                /\ module'.val.order = SectionRank[result'.call]
           /\ SectionRank[result'.call] <= module.val.order =>
                /\ ~result'.ok
                /\ IF TagDisabled(result'.call)
                   THEN result'.msg = "exceptions proposal not enabled"
                   ELSE result'.msg = OutOfOrder
      /\ (result'.call = "custom_section" /\ result'.ok) => module' = module
    ]_vars

\* a Start section is refused as out of order (an Element section, say, was
\* accepted before it)
C2_Witness ==
  /\ result.call = "start_section"
  /\ result.msg = OutOfOrder
  /\ module.some /\ module.val.order > Order.Start

\* C6: code_section_start(count), reaching its count check in a module whose
\* earlier payloads were accepted, succeeds iff count is the number of
\* functions the Function section declared (0 when there was none); it fails
\* with "function and code section have inconsistent lengths" when a Function
\* section declared another count and with "code section without function
\* section" when there was none.
C6_CodeCount ==
  [][ ( /\ result'.call = "code_section_start"
          /\ state = "Module" /\ module.some
          /\ module.val.order < Order.Code ) =>
        \A count \in 0..(MaxCount + 1), off \in Offsets :
          code_section_start(count, off) =>
           /\ result'.ok <=> count = Len(module.val.functions)
           /\ ~result'.ok =>
                result'.msg =
                  IF module.val.expected_code_bodies.some
                  THEN "function and code section have inconsistent lengths"
                  ELSE "code section without function section"
           /\ module.val.expected_code_bodies.some =>
                module.val.expected_code_bodies.val = Len(module.val.functions)
    ]_vars

\* an empty Code section is refused after a Function section of one function
C6_Witness ==
  /\ result.call = "code_section_start"
  /\ result.msg = "function and code section have inconsistent lengths"
  /\ module.some /\ module.val.functions # <<>>

DataCapError == "data segments count exceeds limit of " \o ToString(MAX_WASM_DATA_SEGMENTS)

\* C7: a Data section that reaches the cap check is refused by it exactly
\* when its declared count exceeds 100,000, whatever a DataCount section
\* declared.
C7_DataCap ==
  [][ ( /\ result'.call = "data_section"
          /\ state = "Module" /\ module.some
          /\ module.val.order < Order.Data ) =>
        \A s \in Sections(DataCounts, Offsets) :
          data_section(s) =>
            (result'.msg = DataCapError <=> s.count > MAX_WASM_DATA_SEGMENTS)
    ]_vars

InconsistentData == "data count and data section have inconsistent lengths"

\* C8: a DataCount section that is accepted records its n, a Data section
\* records its declared count, and End of a module whose DataCount n differs
\* from the Data section's count (0 without a Data section) fails with "data
\* count and data section have inconsistent lengths".
C8_DataCount ==
  [][ /\ (result'.call = "data_count_section" /\ result'.ok) =>
           \A n \in DataCounts, off \in Offsets :
             data_count_section(n, off) => module'.val.data_count = Some(n)
      /\ (result'.call = "data_section" /\ result'.ok) =>
           \A s \in Sections(DataCounts, Offsets) :
             data_section(s) => module'.val.data_segment_count = s.count
      /\ ( /\ state = "Module" /\ module.some
           /\ result'.call = "end"
           /\ module.val.data_count.some
           /\ module.val.data_count.val # module.val.data_segment_count ) =>
           ~result'.ok /\ result'.msg = InconsistentData
    ]_vars

\* End fails on a module whose Data section was accepted with fewer segments
\* than DataCount declared
C8_Witness ==
  /\ result.call = "end"
  /\ result.msg = InconsistentData
  /\ state = "End"

ModuleCalls == SectionCalls \cup {"code_section_entry"}
ComponentCalls ==
  {"component_type_section", "component_import_section",
   "component_function_section", "module_section", "component_section",
   "instance_section", "component_export_section", "component_start_section",
   "alias_section"}

\* The number of scopes that enclose the one being validated.
Enclosing ==
  CASE state = "Module" -> Len(components)
    [] state = "Component" -> Len(components) - 1
    [] OTHER -> 0

\* C3: an End that is accepted in Component state with a parent scope on the
\* stack pops the finished component and adds its type to the parent.
C3_ParentAbsorbsComponent ==
  [][ ( /\ state = "Component" /\ Len(components) >= 2
        /\ result'.call = "end" /\ result'.ok ) =>
        components' = add_component(SubSeq(components, 1, Len(components) - 1))
    ]_vars

\* C4: an accepted End of a nested module or component brings the validator
\* back to Component with the parent scope on top of the stack; an accepted
\* End of the outermost module or component leaves it in state End.
C4_EndReturnsToParent ==
  [][ ( /\ state \in {"Module", "Component"}
        /\ result'.call = "end" /\ result'.ok ) =>
        IF Enclosing > 0
        THEN state' = "Component" /\ Len(components') = Enclosing
        ELSE state' = "End"
    ]_vars

\* C5: a module-section method succeeds only in state Module and a
\* component-section method only in state Component; in every other state
\* the call returns an error and changes neither the state, nor the module
\* state, nor the component stack.
C5_StateChecks ==
  [][ /\ (result'.call \in ModuleCalls /\ state # "Module") =>
           /\ result'.ret = "Err"
           /\ UNCHANGED <<state, expected, module, components>>
      /\ (result'.call \in ComponentCalls /\ state # "Component") =>
           /\ result'.ret = "Err"
           /\ UNCHANGED <<state, expected, module, components>>
    ]_vars

\* a code entry is refused while a component is being validated, and an
\* instance section before the header of a nested module
C5_Witness ==
  \/ /\ result.call = "code_section_entry"
     /\ result.msg = "unexpected module code section while parsing a component"
     /\ state = "Component"
  \/ /\ result.call = "instance_section"
     /\ result.msg = "unexpected component instance section before header was parsed"
     /\ state = "Unparsed"


\* ----------------------------------------------------------- data flags
\* The flags value the next read decodes, and what an offset expression
\* starting at buffer position `at` looks like in the returned kind.
Flags == read_var_u32(data_reader.reader)
InvalidFlags == "invalid flags byte in data segment"
HasOffsetExpr(kind, at) ==
  /\ kind.init_expr.offset = data_reader.reader.original_offset + at
  /\ Len(kind.init_expr.data) >= 1
  /\ kind.init_expr.data[Len(kind.init_expr.data)] = 11
  /\ kind.init_expr.data =
       SubSeq(data_reader.reader.buffer, at + 1, at + Len(kind.init_expr.data))

\* C9 as stated: in forbid-bulk-memory mode read accepts only the flags value
\* 0, as an active segment on memory 0, and rejects every other flags value.
C9_AsStated ==
  [][ (item'.call = "read" /\ data_reader.forbid_bulk_memory /\ Flags.ok) =>
        /\ (Flags.val = 0 /\ item'.ok) =>
             /\ item'.kind.tag = "Active"
             /\ item'.kind.memory_index = 0
        /\ Flags.val # 0 => ~item'.ok ]_vars

\* C9: the validator forbids bulk memory exactly when the bulk_memory feature
\* is off, and in that mode read takes the leading value of a segment as its
\* memory index: the segment is active on that memory (memory 0 for the value
\* 0) with an offset expression, it is never passive, and read never fails
\* with "invalid flags byte in data segment".
C9_ForbidMode ==
  [][ /\ data_reader'.forbid_bulk_memory => ~features.bulk_memory
      /\ (item'.call = "read" /\ data_reader.forbid_bulk_memory /\ Flags.ok) =>
           /\ item'.ok =>
                /\ item'.kind.tag = "Active"
                /\ item'.kind.memory_index = Flags.val
                /\ HasOffsetExpr(item'.kind, Flags.reader.position)
           /\ ~item'.ok => item'.msg # InvalidFlags ]_vars

\* A segment whose leading value is 1 was read in forbid-bulk-memory mode.
C9_Witness ==
  /\ item.call = "read" /\ item.ok
  /\ data_reader.forbid_bulk_memory
  /\ item.kind.tag = "Active"
  /\ item.kind.memory_index = 1

\* C10: with bulk memory allowed, read decodes flags 0 as an active segment
\* on memory 0 with an offset expression, flags 1 as a passive segment with
\* neither, flags 2 as an active segment on the memory index encoded after the
\* flags with an offset expression, and fails with "invalid flags byte in data
\* segment" on every other flags value (and on no defined one).
C10_Flags ==
  [][ (item'.call = "read" /\ ~data_reader.forbid_bulk_memory /\ Flags.ok) =>
        /\ (Flags.val = 0 /\ item'.ok) =>
             /\ item'.kind.tag = "Active"
             /\ item'.kind.memory_index = 0
             /\ HasOffsetExpr(item'.kind, Flags.reader.position)
        /\ (Flags.val = 1 /\ item'.ok) => item'.kind = [tag |-> "Passive"]
        /\ (Flags.val = 2 /\ item'.ok) =>
             /\ item'.kind.tag = "Active"
             /\ read_var_u32(Flags.reader).ok
             /\ item'.kind.memory_index = read_var_u32(Flags.reader).val
             /\ HasOffsetExpr(item'.kind, read_var_u32(Flags.reader).reader.position)
        /\ (Flags.val \in {0, 1, 2} /\ ~item'.ok) => item'.msg # InvalidFlags
        /\ Flags.val \notin {0, 1, 2} =>
             /\ ~item'.ok
             /\ item'.msg = InvalidFlags
             /\ item'.offset = original_position(Flags.reader) - 1 ]_vars

\* An active segment with the explicit memory index 1 was read with bulk
\* memory allowed.
C10_Witness ==
  /\ item.call = "read" /\ item.ok
  /\ ~data_reader.forbid_bulk_memory
  /\ item.kind.tag = "Active"
  /\ item.kind.memory_index = 1


MemorySections == Sections((0..(MaxCount + 1)) \cup {MAX_WASM_MEMORIES + 1}, Offsets)

\* The module sections that have a cap on their count, with the method, the
\* name in the state error, the rank, the description and the cap of each
\* (the cap of tables and memories depends on the features: CapOf).
Capped ==
  [TypeSection |-> [call |-> "type_section", name |-> "type", rank |-> Order.Type,
                    desc |-> "types", max |-> MAX_WASM_TYPES],
   FunctionSection |-> [call |-> "function_section", name |-> "function",
                        rank |-> Order.Function, desc |-> "functions",
                        max |-> MAX_WASM_FUNCTIONS],
   TableSection |-> [call |-> "table_section", name |-> "table", rank |-> Order.Table,
                     desc |-> "tables", max |-> MAX_WASM_TABLES],
   MemorySection |-> [call |-> "memory_section", name |-> "memory",
                      rank |-> Order.Memory, desc |-> "memories",
                      max |-> MAX_WASM_MEMORIES],
   TagSection |-> [call |-> "tag_section", name |-> "tag", rank |-> Order.Tag,
                   desc |-> "tags", max |-> MAX_WASM_TAGS],
   GlobalSection |-> [call |-> "global_section", name |-> "global",
                      rank |-> Order.Global, desc |-> "globals",
                      max |-> MAX_WASM_GLOBALS],
   ExportSection |-> [call |-> "export_section", name |-> "export",
                      rank |-> Order.Export, desc |-> "exports",
                      max |-> MAX_WASM_EXPORTS],
   ElementSection |-> [call |-> "element_section", name |-> "element",
                       rank |-> Order.Element, desc |-> "element segments",
                       max |-> MAX_WASM_ELEMENT_SEGMENTS],
   DataSection |-> [call |-> "data_section", name |-> "data", rank |-> Order.Data,
                    desc |-> "data segments", max |-> MAX_WASM_DATA_SEGMENTS]]

CapOf(tag) ==
  CASE tag = "TableSection" /\ ~features.reference_types -> 1
    [] tag = "MemorySection" /\ ~features.multi_memory -> 1
    [] OTHER -> Capped[tag].max

\* the section payloads SpecModule feeds to a method
FedSections(tag) ==
  CASE tag = "MemorySection" -> MemorySections
    [] tag = "DataSection" -> Sections(DataCounts, Offsets)
    [] OTHER -> Wide(Capped[tag].max)

CapError(desc, max) ==
  IF max = 1 THEN "multiple " \o desc
  ELSE desc \o " count exceeds limit of " \o ToString(max)

\* C17: a counted module section is checked in the order state, section
\* order, cap, items. In a state other than Module it is refused and nothing
\* changes; in state Module a section of a rank not above the last one is
\* refused as out of order and nothing changes; a section in order whose
\* declared count exceeds the cap is refused with the cap's error at the
\* offset of the section, whatever its items are, and no function or memory is
\* added to the module (a Tag section with the exceptions feature off is
\* refused before all of that, and nothing changes).
C17_CheckOrder ==
  [][ \A tag \in DOMAIN Capped :
        result'.call = Capped[tag].call =>
          \A s \in Items(tag, FedSections(tag)) :
            payload([tag |-> tag, s |-> s]) =>
              IF TagDisabled(Capped[tag].call)
              THEN ~result'.ok /\ UNCHANGED <<state, expected, module, components>>
              ELSE
                /\ state # "Module" =>
                     /\ ~result'.ok
                     /\ result'.msg = ensure_module_state(state, Capped[tag].name)
                     /\ UNCHANGED <<state, expected, module, components>>
                /\ (state = "Module" /\ Capped[tag].rank <= module.val.order) =>
                     /\ ~result'.ok
                     /\ result'.msg = OutOfOrder
                     /\ UNCHANGED <<state, expected, module, components>>
                /\ ( /\ state = "Module" /\ Capped[tag].rank > module.val.order
                     /\ s.count > CapOf(tag) ) =>
                     /\ ~result'.ok
                     /\ result'.msg = CapError(Capped[tag].desc, CapOf(tag))
                     /\ result'.offset = s.start
                     /\ module'.val.order = Capped[tag].rank
                     /\ module'.val.functions = module.val.functions
                     /\ module'.val.memories = module.val.memories
                     /\ module'.val.expected_code_bodies = module.val.expected_code_bodies
    ]_vars

\* a Function section declaring more functions than the cap was refused
C17_Witness ==
  /\ result.call = "function_section"
  /\ result.msg = "functions count exceeds limit of " \o ToString(MAX_WASM_FUNCTIONS)
  /\ module.some /\ module.val.order = Order.Function
  /\ module.val.functions = <<>>

\* ------------------------------------------------------------ counted items
\* The payloads validated through ensure_module_section and
\* ensure_component_section, with the method of each.
Counted ==
  [TypeSection |-> "type_section", ImportSection |-> "import_section",
   FunctionSection |-> "function_section", TableSection |-> "table_section",
   MemorySection |-> "memory_section", TagSection |-> "tag_section",
   GlobalSection |-> "global_section", ExportSection |-> "export_section",
   ElementSection |-> "element_section", DataSection |-> "data_section",
   ComponentTypeSection |-> "component_type_section",
   ComponentImportSection |-> "component_import_section",
   ComponentFunctionSection |-> "component_function_section",
   InstanceSection |-> "instance_section",
   ComponentExportSection |-> "component_export_section",
   AliasSection |-> "alias_section"]

\* C18: a section validated through ensure_module_section or
\* ensure_component_section is accepted only if exactly its declared count of
\* items decode and validate and nothing is left after them: it is refused
\* when its bytes run out (or an item is wrong) before `count` items, at the
\* place the reader stands, and when bytes are left over after `count`
\* items; an accepted Function or Memory section has added exactly `count`
\* functions or memories.
C18_ExactCount ==
  [][ \A tag \in DOMAIN Counted :
        result'.call = Counted[tag] =>
          \A s \in Items(tag, SectionsHere) :
            payload([tag |-> tag, s |-> s]) =>
              /\ result'.ok =>
                   /\ s.good = s.count /\ ~s.trailing
                   /\ tag = "FunctionSection" =>
                        Len(module'.val.functions) = Len(module.val.functions) + s.count
                   /\ tag = "MemorySection" =>
                        module'.val.memories = module.val.memories + s.count
              /\ (s.good < s.count \/ s.trailing) =>
                   /\ ~result'.ok
                   /\ result'.msg \in {ItemError, EndError} => result'.offset = s.at
                   /\ result'.msg = EndError => s.good = s.count
                   /\ result'.msg = ItemError => s.good < s.count
    ]_vars

\* an Instance section with bytes left over after its items was refused
C18_Witness ==
  /\ result.call = "instance_section"
  /\ result.msg = EndError
  /\ state = "Component"
  /\ driver.outcome = "Err"

\* ---------------------------------------------------------------- memories
\* C20: with multi_memory off, a Memory section that reaches the cap check is
\* refused with "multiple memories", and adds no memory, exactly when the
\* memories already present (the imported ones) plus its declared count are
\* more than one.
C20_MultipleMemories ==
  [][ ( /\ result'.call = "memory_section"
        /\ ~features.multi_memory
        /\ state = "Module" /\ module.some
        /\ module.val.order < Order.Memory ) =>
        \A s \in MemorySections :
          memory_section(s) =>
            IF module.val.memories + s.count > 1
            THEN /\ ~result'.ok
                 /\ result'.msg = "multiple memories"
                 /\ result'.offset = s.start
                 /\ module'.val.memories = module.val.memories
            ELSE result'.msg # "multiple memories"
    ]_vars

\* a Memory section of one memory is refused after the import of a memory
C20_Witness ==
  /\ result.call = "memory_section"
  /\ result.msg = "multiple memories"
  /\ ~features.multi_memory
  /\ module.some /\ module.val.memories = 1

\* --------------------------------------------------------------- check_max
\* C16: check_max(cur_len, amt_added, max, desc) returns Ok iff cur_len +
\* amt_added <= max, the sum taken in the integers (so also when cur_len > max
\* and when the sum does not fit the word), and otherwise the error "multiple
\* <desc>" when max = 1 and "<desc> count exceeds limit of <max>" when not.
C16_CheckMax ==
  driver.pc = "checked" =>
    /\ result.ok <=> driver.cur_len + driver.amt_added <= driver.max
    /\ ~result.ok =>
         /\ result.offset = driver.offset
         /\ result.msg = IF driver.max = 1 THEN "multiple " \o driver.desc
                         ELSE driver.desc \o " count exceeds limit of "
                                \o ToString(driver.max)

\* check_max refused a sum that does not fit the word, with cur_len > max
C16_Witness ==
  /\ driver.pc = "checked"
  /\ ~result.ok
  /\ driver.cur_len > driver.max
  /\ driver.cur_len + driver.amt_added >= 2 ^ UsizeBits
  /\ driver.max = 1 /\ result.msg = "multiple memories"

\* --------------------------------------------------------- start function
\* C19: start_section(func) succeeds only if func is the index of a function
\* of the module and the type of that function has no parameters and no
\* results; when the call reaches the type (state Module, section in order,
\* func in bounds) and the type has a parameter or a result, it is rejected
\* with "invalid start function type" at the offset of the section.
C19_StartType ==
  [][ result'.call = "start_section" =>
        \A func \in SmallCounts, off \in Offsets :
          start_section(func, off) =>
            /\ result'.ok =>
                 /\ state = "Module" /\ module.some
                 /\ func < Len(module.val.functions)
                 /\ module.val.functions[func + 1] = FuncType(<<>>, <<>>)
            /\ ( /\ state = "Module" /\ module.some
                 /\ module.val.order < Order.Start
                 /\ func < Len(module.val.functions)
                 /\ module.val.functions[func + 1] # FuncType(<<>>, <<>>) ) =>
                 /\ ~result'.ok
                 /\ result'.msg = "invalid start function type"
                 /\ result'.offset = off
    ]_vars

\* a start function of type () -> (i32) was rejected for its type
C19_Witness ==
  /\ result.call = "start_section"
  /\ result.msg = "invalid start function type"
  /\ module.some /\ module.val.order = Order.Start
  /\ module.val.functions = <<FuncType(<<>>, <<"I32">>)>>

\* ---------------------------------------------------------- function bodies
\* C12: in whatever order the FuncValidators handed out by code_section_entry
\* are run, and whatever payloads the Validator has been fed in between,
\* each body gets the result (success, or the same error) that validating it
\* inline, right when it was handed out, gives.
C12_ParallelEquivalence ==
  \A i \in DOMAIN driver.pool :
    driver.pool[i].outcome # "pending" =>
      driver.pool[i].outcome = driver.pool[i].inline

\* the second body of a module was validated before the first, after the
\* module had ended, and failed
C12_Witness ==
  /\ Len(driver.pool) = 2
  /\ driver.pool[1].outcome = "pending"
  /\ ~driver.pool[2].live
  /\ driver.pool[2].outcome = "unknown memory 0"
  /\ driver.pool[1].fv.resources = driver.pool[2].fv.resources

\* ---------------------------------------------------------------- snapshot
\* The snapshot a handed-out FuncValidator reads: that of the Module it
\* shares with the Validator, or of the Module as it was left.
SeenSnapshot(e, m) == IF e.live THEN m.val.snapshot ELSE e.fv.resources.snapshot

\* C13: an accepted code_section_start stores the commit of the TypeList as
\* it stands in the module state; every FuncValidator code_section_entry
\* returns afterwards carries that snapshot; the snapshot of a module state
\* and the one a handed-out FuncValidator reads never change afterwards,
\* whatever is pushed on the TypeList later, and the TypeList only grows, so
\* the snapshot stays a prefix of it and the ids below its length stay valid.
C13_Snapshot ==
  [][ /\ \A count \in 0..MaxBodies :
           (code_section_start(count, 0) /\ result'.ok) =>
             /\ module'.val.snapshot = Some(commit(types))
             /\ types' = types
      /\ (code_section_entry(0) /\ result'.ok) =>
           /\ module.val.snapshot.some
           /\ result'.val.resources.snapshot = module.val.snapshot
           /\ module'.val.snapshot = module.val.snapshot
      /\ (module.some /\ module.val.snapshot.some /\ module'.some) =>
           module'.val.snapshot = module.val.snapshot
      /\ types' >= types
      /\ \A i \in DOMAIN driver.pool :
           /\ i \in DOMAIN driver'.pool
           /\ SeenSnapshot(driver.pool[i], module).some
           /\ SeenSnapshot(driver'.pool[i], module') = SeenSnapshot(driver.pool[i], module)
           /\ SeenSnapshot(driver.pool[i], module).val.len <= types
    ]_vars

\* a FuncValidator of a nested module holds the snapshot of one type while
\* the TypeList has grown to two (the module's own type was pushed at End)
C13_Witness ==
  /\ Len(driver.pool) >= 1
  /\ driver.pool[1].outcome = "pending"
  /\ driver.pool[1].fv.resources.snapshot = Some(commit(1))
  /\ ~driver.pool[1].live
  /\ types = 2

\* ------------------------------------------------------------------ headers
\* C14: validate_all of the 8 bytes 00 61 73 6d 01 00 00 00 by a Validator
\* of the default features returns Ok, leaves the Validator in state End,
\* and the Types it returns are those of a module with no type, no function
\* and no memory, over an empty type list.
C14_MinimalModule ==
  ( /\ driver.pc = "done" /\ driver.pass = 1
    /\ driver.bytes = <<0, 97, 115, 109, 1, 0, 0, 0>>
    /\ features = WasmFeaturesDefault ) =>
    /\ driver.outcome = "Ok"
    /\ state = "End"
    /\ driver.last_types.some
    /\ driver.last_types.val.kind = "Module"
    /\ driver.last_types.val.types.len = 0
    /\ Len(driver.last_types.val.module.types) = 0
    /\ Len(driver.last_types.val.module.functions) = 0
    /\ driver.last_types.val.module.memories = 0

\* the first call on the minimal module has returned Ok
C14_Witness ==
  /\ driver.pc = "done" /\ driver.pass = 1
  /\ driver.bytes = <<0, 97, 115, 109, 1, 0, 0, 0>>
  /\ features = WasmFeaturesDefault
  /\ driver.outcome = "Ok" /\ result.call = "end"

\* C15: validate_all of a header with the right magic number and a version
\* word that is neither the module nor the component version, such as
\* 00 61 73 6d 02 00 00 00, fails with "unknown binary version" at offset 4.
C15_UnknownVersion ==
  ( /\ driver.pc = "done"
    /\ SubSeq(driver.bytes, 1, 4) = <<0, 97, 115, 109>>
    /\ driver.bytes[5] + 256 * driver.bytes[6] + 65536 * driver.bytes[7]
           + 16777216 * driver.bytes[8]
         \notin {WASM_MODULE_VERSION, WASM_COMPONENT_VERSION} ) =>
    /\ driver.outcome = "Err"
    /\ driver.msg = "unknown binary version"
    /\ driver.offset = 4

\* the first call on 00 61 73 6d 02 00 00 00 has failed
C15_Witness ==
  /\ driver.pc = "done" /\ driver.pass = 1
  /\ driver.bytes = <<0, 97, 115, 109, 2, 0, 0, 0>>
  /\ driver.outcome = "Err"

\* -------------------------------------------------------------- idempotence
\* What a call of validate_all returned
Outcome(d) ==
  [outcome |-> d.outcome, msg |-> d.msg, offset |-> d.offset, last_types |-> d.last_types]

\* C11 as stated: a second validate_all on the same bytes, with a new
\* Validator or with the one that has already validated them, returns what
\* the first call returned.
C11_AsStated ==
  (driver.pc = "done" /\ driver.pass = 2) => Outcome(driver) = driver.first

\* C11: a second validate_all on the same bytes with a new Validator of the
\* same features returns what the first call returned, the same Types or the
\* same error. With the Validator of the first call it returns the same
\* error when the first call failed before the Validator accepted a header;
\* after a first call that succeeded it fails with "wasm version header out
\* of order" at offset 0.
C11_Idempotence ==
  (driver.pc = "done" /\ driver.pass = 2) =>
    /\ driver.fresh => Outcome(driver) = driver.first
    /\ (~driver.fresh /\ driver.first.outcome = "Err") =>
         /\ state = "Unparsed"
         /\ Outcome(driver) = driver.first
    /\ (~driver.fresh /\ driver.first.outcome = "Ok") =>
         /\ driver.outcome = "Err"
         /\ driver.msg = "wasm version header out of order"
         /\ driver.offset = 0

\* the second call on the Validator that accepted the minimal module failed
C11_Witness ==
  /\ driver.pc = "done" /\ driver.pass = 2 /\ ~driver.fresh
  /\ driver.bytes = <<0, 97, 115, 109, 1, 0, 0, 0>>
  /\ driver.first.outcome = "Ok"
  /\ driver.outcome = "Err"

\* ------------------------------------------------------------ state and data
\* C21: whatever payload methods are called, the state is Module exactly
\* when a module state is present, the component stack is not empty in state
\* Component, and no assert!, unwrap or unreachable! of the Validator fires.
C21_StateData ==
  /\ state = "Module" <=> module.some
  /\ state = "Component" => components # <<>>
  /\ ~panicked

\* C22: a CustomSection payload is accepted in every state of the
\* Validator, before a header and after End included, and leaves the state,
\* the expected encoding, the module state (its section order included), the
\* component stack and the type list as they were.
C22_CustomSection ==
  [][ result'.call = "custom_section" =>
        /\ result'.ok /\ result'.ret = "Ok"
        /\ UNCHANGED <<state, expected, module, components, types>>
    ]_vars

\* a custom section was accepted after the end of a module that had sections
C22_Witness ==
  /\ result.call = "custom_section" /\ result.ok
  /\ state = "End" /\ types > 0

\* C23: Validator::payload returns ValidPayload::Func exactly for an accepted
\* CodeSectionEntry, ValidPayload::Parser exactly for an accepted ModuleSection
\* or ComponentSection, ValidPayload::End exactly for an accepted End and
\* ValidPayload::Ok for every other accepted payload; a payload that fails
\* returns Err and no ValidPayload; an UnknownSection always fails with
\* "malformed section id".
C23_ValidPayload ==
  /\ result.ok =>
        result.ret = CASE result.call = "code_section_entry" -> "Func"
                       [] result.call \in {"module_section", "component_section"} -> "Parser"
                       [] result.call = "end" -> "End"
                       [] OTHER -> "Ok"
  /\ ~result.ok => result.ret = "Err" /\ result.val.kind = "none"
  /\ result.call = "unknown_section" =>
        /\ ~result.ok
        /\ result.msg \in {"malformed section id: 14", "malformed section id: 255"}

\* a nested module was announced and the parser of its bytes handed back
C23_Witness ==
  /\ result.call = "module_section" /\ result.ok
  /\ result.ret = "Parser" /\ state = "Unparsed"

\* C29: version is accepted only in state Unparsed; in any other state it
\* fails with "wasm version header out of order" and changes nothing; a
\* version call that fails in state Unparsed (unknown version, component
\* encoding without the component-model feature, encoding other than the
\* expected one) leaves the state Unparsed with the same expected encoding,
\* no module state and nothing pushed on the component stack.
C29_VersionErrors ==
  [][ result'.call = "version" =>
        /\ result'.ok => state = "Unparsed"
        /\ state # "Unparsed" =>
              /\ ~result'.ok
              /\ result'.msg = "wasm version header out of order"
              /\ UNCHANGED <<state, expected, module, components, types>>
        /\ state = "Unparsed" /\ ~result'.ok =>
              /\ result'.msg \in {"unknown binary version",
                                  "WebAssembly component model feature not enabled",
                                  "expected a version header for a module",
                                  "expected a version header for a component"}
              /\ state' = "Unparsed" /\ expected' = expected
              /\ ~module'.some
              /\ components' = components
    ]_vars

\* a component header was refused for the feature, before any header was taken
C29_Witness ==
  /\ result.call = "version" /\ ~result.ok
  /\ result.msg = "WebAssembly component model feature not enabled"
  /\ state = "Unparsed" /\ components = <<>> /\ ~module.some

\* What a section payload is refused with while a header is awaited.
BeforeHeader ==
  [TypeSection |-> "unexpected module type section before header was parsed",
   ImportSection |-> "unexpected module import section before header was parsed",
   FunctionSection |-> "unexpected module function section before header was parsed",
   TableSection |-> "unexpected module table section before header was parsed",
   MemorySection |-> "unexpected module memory section before header was parsed",
   TagSection |-> "unexpected module tag section before header was parsed",
   GlobalSection |-> "unexpected module global section before header was parsed",
   ExportSection |-> "unexpected module export section before header was parsed",
   StartSection |-> "unexpected module start section before header was parsed",
   ElementSection |-> "unexpected module element section before header was parsed",
   DataCountSection |-> "unexpected module data count section before header was parsed",
   CodeSectionStart |-> "unexpected module code section before header was parsed",
   CodeSectionEntry |-> "unexpected module code section before header was parsed",
   DataSection |-> "unexpected module data section before header was parsed",
   ComponentTypeSection |-> "unexpected component type section before header was parsed",
   ComponentImportSection |-> "unexpected component import section before header was parsed",
   ComponentFunctionSection |-> "unexpected component function section before header was parsed",
   ModuleSection |-> "unexpected component module section before header was parsed",
   ComponentSection |-> "unexpected component component section before header was parsed",
   InstanceSection |-> "unexpected component instance section before header was parsed",
   ComponentExportSection |-> "unexpected component export section before header was parsed",
   ComponentStartSection |-> "unexpected component start section before header was parsed",
   AliasSection |-> "unexpected component alias section before header was parsed",
   UnknownSection |-> "unexpected section before header was parsed"]

\* The payloads that follow an accepted module_section or component_section,
\* and the failure of the cap; `others` are the payloads refused for a reason
\* of their own instead of their place.
NestedPayloadRule(p, others) ==
  state = "Unparsed" /\ expected.some /\ payload(p) =>
         CASE p.tag = "CustomSection" -> TRUE
           [] p.tag = "Version" ->
                IF p.encoding # expected.val
                THEN /\ ~result'.ok
                     /\ result'.msg = (IF expected.val = "Module"
                                       THEN "expected a version header for a module"
                                       ELSE "expected a version header for a component")
                     /\ UNCHANGED <<state, expected, module, components>>
                ELSE result'.ok => state' = p.encoding
           [] p.tag = "End" -> ~result'.ok
           [] p.tag \in others -> ~result'.ok /\ UNCHANGED <<state, expected, module, components>>
           [] OTHER ->
                /\ ~result'.ok
                /\ result'.msg = BeforeHeader[p.tag]
                /\ UNCHANGED <<state, expected, module, components>>

NestedHeaderRule(others) ==
  /\ \A t \in NestSectionTags : \A p \in NestSections(t) : NestedPayloadRule(p, others)
  /\ \A p \in NestPayloads : NestedPayloadRule(p, others)
  /\ result'.call \in {"module_section", "component_section"} /\ result'.ok =>
       /\ state = "Component" /\ state' = "Unparsed"
       /\ expected' = Some(IF result'.call = "module_section" THEN "Module"
                           ELSE "Component")
  /\ result'.call \in {"module_section", "component_section"}
       /\ state = "Component" /\ ~result'.ok =>
       /\ result'.msg \in {"modules count exceeds limit of 1000",
                           "components count exceeds limit of 1000"}
       /\ UNCHANGED <<state, expected, module, components>>

\* C30 as stated: after an accepted module_section or component_section
\* every section payload is refused as arriving before the header was parsed.
C30_AsStated == [][NestedHeaderRule({})]_vars

\* C30: after module_section succeeds the only accepted payload that is not
\* a custom section is a Version header with Module encoding, and after
\* component_section one with Component encoding; a header of the other
\* encoding fails with "expected a version header for a module" / "... for a
\* component"; a section payload fails as arriving before the header was
\* parsed, save a tag section while the exceptions feature is off and an
\* unknown section, which fail for their own reason; a module_section or
\* component_section that fails its cap leaves the state Component.
C30_NestedHeader ==
  [][NestedHeaderRule(IF features.exceptions THEN {"UnknownSection"}
                      ELSE {"UnknownSection", "TagSection"})]_vars

\* the header of a component was refused where that of a nested module was due
C30_Witness ==
  /\ result.call = "version" /\ ~result.ok
  /\ result.msg = "expected a version header for a module"
  /\ state = "Unparsed" /\ expected = Some("Module")
  /\ components # <<>>

\* C26: check_value_type accepts I32, I64, F32 and F64 whatever the flags,
\* FuncRef and ExternRef exactly when reference_types is on (otherwise
\* "reference types support is not enabled") and V128 exactly when simd is on
\* (otherwise "SIMD support is not enabled"); no other flag has a say.
C26_CheckValueType ==
  result.call = "check_value_type" =>
    /\ result.ok <=>
          \/ item.ty \in {"I32", "I64", "F32", "F64"}
          \/ item.ty \in {"FuncRef", "ExternRef"} /\ features.reference_types
          \/ item.ty = "V128" /\ features.simd
    /\ ~result.ok =>
          result.msg = IF item.ty = "V128" THEN "SIMD support is not enabled"
                       ELSE "reference types support is not enabled"

\* the vector type was accepted with simd on and the reference types off
C26_Witness ==
  /\ result.call = "check_value_type" /\ result.ok
  /\ item.ty = "V128"
  /\ features.simd /\ ~features.reference_types /\ ~features.relaxed_simd

\* C25: ElementSection::segment begins a segment with the flags 0, 1, 2, 3
\* for an active segment without a table, a passive one, an active one with
\* a table and a declared one when the items are function indices, and with
\* 4, 5, 6, 7 when they are expressions: bit 0 is passive-or-declared, bit 1
\* is table-given-or-declared, bit 2 is expressions. Each segment adds one
\* to len() and leaves the bytes written before it in place.
C25_ElementFlags ==
  [][ item'.call = "segment" =>
        LET old == driver.section
            new == driver'.section
            seg == item'.segment
            flags == new.bytes[Len(old.bytes) + 1]
        IN /\ Len(new.bytes) > Len(old.bytes)
           /\ SubSeq(new.bytes, 1, Len(old.bytes)) = old.bytes
           /\ flags \in 0..7
           /\ flags % 2 = 1 <=> seg.mode.kind \in {"Passive", "Declared"}
           /\ (flags \div 2) % 2 = 1 <=>
                 \/ seg.mode.kind = "Declared"
                 \/ seg.mode.kind = "Active" /\ seg.mode.table.some
           /\ (flags \div 4) % 2 = 1 <=> seg.elements.kind = "Expressions"
           /\ new.num_added = old.num_added + 1
    ]_vars

\* a declared segment of expressions was added after another segment
C25_Witness ==
  /\ item.call = "segment"
  /\ item.segment.mode.kind = "Declared"
  /\ item.segment.elements.kind = "Expressions"
  /\ driver.section.num_added = 2
  /\ driver.section.bytes[Len(driver.section.bytes)] = 11

\* The sections of a module that are not type sections, and those that are.
OtherSections(sections) == SelectSeq(sections, LAMBDA x : x.id # TypeSectionId)
TypeSections(sections) == SelectSeq(sections, LAMBDA x : x.id = TypeSectionId)

\* C27: when the module has a type section, wherever it sits among the raw
\* sections, the module AddTypeMutator produces has one type section, made
\* of the previous types in their order followed by exactly one new function
\* type, and every other section is as it was.
C27_TypeAppended ==
  item.call = "mutate" /\ driver.info.types.some =>
    LET old == driver.info.raw_sections[driver.info.types.val + 1] IN
    /\ TypeSections(item.module) =
         <<[id |-> TypeSectionId,
            types |-> Append(old.types, FuncType(item.params, item.results))]>>
    /\ OtherSections(item.module) = OtherSections(driver.info.raw_sections)

\* C28: when the module has no type section, AddTypeMutator creates one that
\* holds exactly one function type, of at most max_params parameters and at
\* most max_results results, and leaves the sections there were as they were;
\* the mutator applies exactly when the configuration is not in reduce mode.
C28_TypeCreated ==
  /\ driver.pc # "new" => (driver.applicable <=> ~driver.config.reduce)
  /\ item.call = "mutate" => ~driver.config.reduce
  /\ item.call = "mutate" /\ ~driver.info.types.some =>
       /\ Len(TypeSections(item.module)) = 1
       /\ Len(TypeSections(item.module)[1].types) = 1
       /\ TypeSections(item.module)[1].types[1] = FuncType(item.params, item.results)
       /\ Len(item.params) \in 0..driver.max_params
       /\ Len(item.results) \in 0..driver.max_results
       /\ OtherSections(item.module) = driver.info.raw_sections

\* a type section was created in a module that began with a custom section
C28_Witness ==
  /\ item.call = "mutate" /\ ~driver.info.types.some
  /\ Len(driver.info.raw_sections) = MaxRaw
  /\ driver.info.raw_sections[1] = RawCustom
  /\ Len(item.params) = 1 /\ Len(item.results) = 1

\* C24: the Types returned at the end of a core module that validates
\* answers, for types, functions, tables, memories, globals, tags and element
\* segments, with the number of entries of that kind; function_at(i) and
\* tag_at(i) are the signature at the type index of entry i, element_at(i) is
\* the element type of segment i; the module, component, instance and value
\* counts are zero.
C24_TypesOfModule ==
  result.call = "end" /\ result.ok =>
    LET t == result.val
        fed == driver.fed
    IN /\ t.kind = "Module"
       /\ TypesCounts(t) =
            [type_count |-> Len(fed.types), memory_count |-> fed.memories,
             table_count |-> Len(fed.tables), global_count |-> fed.globals,
             function_count |-> Len(fed.functions), tag_count |-> Len(fed.tags),
             element_count |-> Len(fed.elements),
             module_count |-> 0, component_count |-> 0, instance_count |-> 0,
             value_count |-> 0]
       /\ \A i \in 0..MaxEntries :
            /\ func_type_at(t, i) = At(fed.types, i)
            /\ function_at(t, i) =
                 IF i < Len(fed.functions) THEN Some(fed.types[fed.functions[i + 1] + 1])
                 ELSE None
            /\ tag_at(t, i) =
                 IF i < Len(fed.tags) THEN Some(fed.types[fed.tags[i + 1] + 1])
                 ELSE None
            /\ element_at(t, i) = At(fed.elements, i)

\* a module like that of test_module_type_information has validated: two
\* types, a function of the first and a tag of the second
C24_Witness ==
  /\ result.call = "end" /\ result.ok
  /\ Len(driver.fed.types) = 2 /\ driver.fed.types[1] # driver.fed.types[2]
  /\ driver.fed.functions = <<0>> /\ driver.fed.tags = <<1>>
  /\ driver.fed.memories = 1 /\ driver.fed.globals = 1
  /\ driver.fed.tables = <<"FuncRef">> /\ driver.fed.elements = <<"FuncRef">>

\* C31: end succeeds only when called in state Module or Component; called
\* in state End it fails with 'cannot call end after parsing has completed',
\* called in state Unparsed it fails with 'cannot call end before a header
\* has been parsed'; and from state End no call of any kind changes the
\* state, so the Validator never comes back to Module or Component.
C31_EndOnce ==
  [][/\ result'.call = "end" /\ result'.ok => state \in {"Module", "Component"}
     /\ result'.call = "end" /\ state = "End" =>
          ~result'.ok /\ result'.msg = "cannot call end after parsing has completed"
     /\ result'.call = "end" /\ state = "Unparsed" =>
          ~result'.ok /\ result'.msg = "cannot call end before a header has been parsed"
     /\ state = "End" => state' = "End"]_vars

\* the outermost End has been validated and a later call of end was refused
C31_Witness ==
  /\ state = "End" /\ components = <<>> /\ ~module.some /\ types > 0
  /\ result = Err("end", "cannot call end after parsing has completed", 0)

\* C32: a call of end made before any header was parsed fails and leaves the
\* state Unparsed with the encoding it expected, so that a valid header is
\* still accepted afterwards.
C32_EndKeepsUnparsed ==
  [][state = "Unparsed" /\ result'.call = "end" =>
       /\ ~result'.ok
       /\ state' = "Unparsed" /\ expected' = expected]_vars

\* The methods behind the payloads of a component's sections.
ComponentSectionCalls ==
  {"component_type_section", "component_import_section",
   "component_function_section", "module_section", "component_section",
   "instance_section", "component_export_section", "component_start_section",
   "alias_section"}

\* C33: while the component_model feature is off, whatever the calls, the
\* state is never Component, no nested header is expected and the stack of
\* components is empty; a component header given to a fresh Validator is
\* refused with 'WebAssembly component model feature not enabled', and every
\* payload of a component section is refused, those of module_section,
\* component_section and component_start_section included.
C33_ComponentModelOff ==
  [][~features.component_model =>
       /\ state # "Component" /\ ~expected.some /\ components = <<>>
       /\ state' # "Component" /\ ~expected'.some /\ components' = <<>>
       /\ \A off \in Offsets :
            state = "Unparsed" /\ version(WASM_COMPONENT_VERSION, "Component", off) =>
              result' = Err("version",
                            "WebAssembly component model feature not enabled", off)
       /\ result'.call \in ComponentSectionCalls => ~result'.ok]_vars

\* a component header was refused because the feature is off, the Validator
\* still waiting for a header
C33_Witness ==
  /\ ~features.component_model /\ state = "Unparsed"
  /\ result = Err("version", "WebAssembly component model feature not enabled", 0)

\* C34: validate_all validates no function body while payloads are still
\* being read: a payload the Validator refuses ends the call with that error
\* whatever bodies were kept, and a payload it accepts never ends the call
\* with an error; a body is kept, behind those kept before it, when its
\* payload is accepted; the bodies are validated after the End of the top
\* level was accepted, first kept first, and the first that fails gives the
\* error returned; Ok carries the Types the last End returned.
C34_BodiesDeferred ==
  [][/\ driver.pc = "parsing" =>
          /\ driver'.validated = 0
          /\ ~result'.ok => driver' = Fail(driver, result'.ret, result'.offset)
          /\ result'.ok /\ result' # result => driver'.pc # "done"
          /\ result'.ret = "Func" /\ result' # result =>
               driver'.functions_to_validate = Append(driver.functions_to_validate, Here)
          /\ driver'.pc = "functions" =>
               /\ result'.call = "end" /\ result'.ok /\ driver.stack = <<>>
               /\ driver'.last_types = Some(result'.val)
     /\ driver.pc = "functions" =>
          /\ driver'.validated > driver.validated =>
               /\ driver'.validated = driver.validated + 1
               /\ driver'.functions_to_validate = Tail(driver.functions_to_validate)
          /\ driver'.outcome = "Err" =>
               /\ driver.functions_to_validate # <<>>
               /\ driver'.offset \in {Head(driver.functions_to_validate).start,
                                      Head(driver.functions_to_validate).end}
          /\ driver'.outcome = "Ok" =>
               /\ driver.functions_to_validate = <<>>
               /\ driver.last_types = Some(result.val)
               /\ result.call = "end"
          /\ UNCHANGED result]_vars

\* a Data section that follows the Code section was refused while a function
\* body was kept: validate_all returned the error of the section and
\* validated no body
C34_Witness ==
  /\ driver.pc = "done" /\ driver.outcome = "Err"
  /\ driver.functions_to_validate # <<>> /\ driver.validated = 0
  /\ result.call = "data_section" /\ ~result.ok
  /\ driver.offset = result.offset
  /\ driver.offset > driver.functions_to_validate[1].end - 1

\* C35: read never reads outside the section buffer: when the declared
\* length of the data exceeds the bytes that remain, it returns the error
\* 'unexpected end of section or function: data segment extends past end of
\* the data section' at original_offset + the length of the buffer;
\* otherwise the data returned has the declared length, the cursor stands
\* just past it, and the range goes from the position before the flags to
\* the position after the data, in offsets of the original buffer.
C35_ReadInBounds ==
  driver.pc = "done" /\ item.call = "read" =>
    LET b == driver.before IN
    IF driver.data_len > Len(b.buffer) - b.position
    THEN item = [call |-> "read", ok |-> FALSE,
                 msg |-> "unexpected end of section or function: data segment extends past end of the data section",
                 offset |-> b.original_offset + Len(b.buffer)]
    ELSE /\ item.ok
         /\ Len(item.data) = driver.data_len
         /\ data_reader.reader.position = b.position + driver.data_len
         /\ item.range = Range(driver.segment_start,
                               b.original_offset + b.position + driver.data_len)

\* C36: the bytes ElementSection::segment writes for a segment, read back as
\* an element segment of the binary format, give the segment that was
\* written: the same element type, the same mode and the same items, for
\* every mode, both element types and both kinds of items.
C36_ElementTypeKept ==
  [][ item'.call = "segment" =>
        decode_segment(driver'.section.bytes, Len(driver.section.bytes)) =
          [segment |-> item'.segment, pos |-> Len(driver'.section.bytes)]
    ]_vars

\* C37: from skip_inits = k, as long as fewer calls than a u32 can count
\* have been made, should_process has returned true at call k + 1 and false
\* at every other call, so it has fired at most once; the call that fires
\* takes the counter from 0 round to u32::MAX.
C37_FiresOnce ==
  item.call = "should_process" /\ driver.calls < 2 ^ UsizeBits =>
    /\ item.ret <=> driver.calls = driver.k + 1
    /\ driver.fired = (IF driver.calls > driver.k THEN 1 ELSE 0)
    /\ driver.translator.skip_inits =
         (IF driver.calls <= driver.k THEN driver.k - driver.calls
          ELSE 2 ^ UsizeBits - 1 - (driver.calls - driver.k - 1))

\* a translator that had to skip two initializers fired at its third call and
\* not at the two calls after it
C37_Witness ==
  /\ item.call = "should_process" /\ ~item.ret
  /\ driver.k = 2 /\ driver.calls = 5 /\ driver.fired = 1
  /\ driver.translator.skip_inits = 2 ^ UsizeBits - 3

\* The translator was due to rewrite the expression it was given.
Rewrites ==
  /\ driver.pc = "done" /\ item.call = "translate_init_expr"
  /\ driver.kind = driver.before.kind /\ driver.before.skip_inits = 0

\* C39: in reduce mode, for an I32 or I64 initializer `const v`,
\* translate_init_expr returns the 'no mutations applicable' error when v is
\* 0 or 1, and otherwise returns, without a panic, a constant r of the same
\* type with 0 <= r < v, whatever v is, negative values included.
C39_ReducedConst ==
  Rewrites /\ driver.config.reduce
    /\ driver.init.e.op \in {"I32Const", "I64Const"} =>
    IF driver.init.e.value \in {0, 1}
    THEN item.ret = NoMutationsApplicable
    ELSE /\ item.ret.ok
         /\ item.ret.instr.op = driver.init.e.op
         /\ 0 <= item.ret.instr.value
         /\ item.ret.instr.value < driver.init.e.value

\* The entries of a global section, each as the bytes it takes in the data.
GlobalPieces(data) ==
  LET count == decode_u32(data, 0)
      at[n \in 0..count.val] ==
        IF n = 0 THEN count.pos ELSE read_global(data, at[n - 1]).pos
  IN [n \in 1..count.val |-> SubSeq(data, at[n - 1] + 1, at[n])]

\* The segments of an element section, each as its bytes and as it decodes.
ElementPieces(data) ==
  LET count == decode_u32(data, 0)
      at[n \in 0..count.val] ==
        IF n = 0 THEN count.pos ELSE decode_segment(data, at[n - 1]).pos
  IN [n \in 1..count.val |->
        [bytes |-> SubSeq(data, at[n - 1] + 1, at[n]),
         segment |-> decode_segment(data, at[n - 1]).segment]]

\* The module a mutation returned differs from the module given in raw
\* section `section` only.
OnlySection(section) ==
  /\ Len(item.ret.module) = Len(driver.info.raw_sections)
  /\ \A j \in DOMAIN item.ret.module :
       j # section => item.ret.module[j] = driver.info.raw_sections[j]
  /\ item.ret.module[section].id = driver.info.raw_sections[section].id

\* C38: the module InitExpressionMutator::Global returns has a global
\* section with as many globals as before, in the same order; exactly one of
\* them, at an index below the number of local globals, was translated anew
\* (same type and mutability, another initializer) and every other one has
\* the bytes it had; every other section is as it was.
C38_OneGlobal ==
  item.call = "mutate" /\ driver.self = "Global" /\ item.ret.ok =>
    LET section == driver.info.globals.val + 1
        old == GlobalPieces(driver.info.raw_sections[section].data)
        new == GlobalPieces(item.ret.module[section].data)
        changed == {n \in DOMAIN old : new[n] # old[n]}
    IN /\ OnlySection(section)
       /\ Len(new) = Len(old)
       /\ Len(new) = num_local_globals(driver.info)
       /\ Concat(new) = SubSeq(item.ret.module[section].data, 2,
                                Len(item.ret.module[section].data))
       /\ Cardinality(changed) = 1
       /\ \A n \in changed :
            LET was == read_global(old[n], 0).val
                is == read_global(new[n], 0).val
            IN is.ty = was.ty /\ is.init_expr # was.init_expr

\* the second of two globals was reduced and the first, whose initializer
\* spells its index with a padded LEB128, was copied as it stood
C38_Witness ==
  /\ item.call = "mutate" /\ driver.self = "Global" /\ item.ret.ok
  /\ driver.rng.idx = 1
  /\ GlobalPieces(driver.info.raw_sections[2].data) =
       <<<<127, 0, 35, 128, 0, 11>>, <<127, 1, 65, 2, 11>>>>
  /\ GlobalPieces(item.ret.module[2].data) =
       <<<<127, 0, 35, 128, 0, 11>>, <<127, 1, 65, 1, 11>>>>

\* C40: InitExpressionMutator::ElementOffset applies exactly when reduce is
\* set, preserve_semantics is not and the module has an element segment.
\* When the offset of the chosen segment is not `i32.const 0` or
\* `i32.const 1`, the module returned has `i32.const 0` as that offset;
\* an offset is never replaced by anything else; the items of the chosen
\* segment are as they were, every other segment has the bytes it had and
\* every other section is as it was.
C40_OffsetZeroed ==
  /\ item.call = "can_mutate" /\ driver.self = "ElementOffset" =>
       (item.ret <=> /\ driver.config.reduce
                     /\ ~driver.config.preserve_semantics
                     /\ num_elements(driver.info) > 0)
  /\ item.call = "mutate" /\ driver.self = "ElementOffset" =>
       /\ driver.config.reduce /\ ~driver.config.preserve_semantics
       /\ num_elements(driver.info) > 0
       /\ LET section == driver.info.elements.val + 1
              old == ElementPieces(driver.info.raw_sections[section].data)
              chosen == (driver.rng.idx % Len(old)) + 1
              mode == old[chosen].segment.mode
          IN /\ mode.kind = "Active"
                  /\ mode.offset \notin {[op |-> "I32Const", value |-> 0],
                                         [op |-> "I32Const", value |-> 1]}
                  => item.ret.ok
             /\ item.ret.ok =>
                  LET new == ElementPieces(item.ret.module[section].data)
                  IN /\ OnlySection(section)
                     /\ Len(new) = Len(old)
                     /\ \A n \in DOMAIN old : n # chosen => new[n].bytes = old[n].bytes
                     /\ new[chosen].segment.elements = old[chosen].segment.elements
                     /\ new[chosen].segment.mode.kind = mode.kind
                     /\ mode.kind = "Active" =>
                          new[chosen].segment.mode.offset = [op |-> "I32Const", value |-> 0]

\* the second of two segments had the offset `global.get 0`, which is now
\* `i32.const 0`; the first, an active segment on table 1, was copied
C40_Witness ==
  /\ item.call = "mutate" /\ driver.self = "ElementOffset" /\ item.ret.ok
  /\ driver.rng.idx = 1
  /\ driver.info.raw_sections[2].data =
       <<2>> \o <<2, 1, 65, 3, 11, 0, 1, 200, 1>> \o <<0, 35, 0, 11, 1, 128, 0>>
  /\ item.ret.module[2].data =
       <<2>> \o <<2, 1, 65, 3, 11, 0, 1, 200, 1>> \o <<0, 65, 0, 11, 1, 0>>

\* a nested module has ended and the Validator is back in its parent component
C21_Witness ==
  /\ result.call = "end" /\ result.ok
  /\ state = "Component" /\ components # <<>>
  /\ ~module.some

====
